---- MODULE Spec2Model ----
(***************************************************************************)
(* PaperBites front end: the paginated video feed (useVideos,              *)
(* FullscreenFeed, HomeScreen) and the AsyncStorage-backed collections     *)
(* (favorites, watch history).                                             *)
(*                                                                         *)
(* React semantics used throughout: a function component's handlers close  *)
(* over the state of the render that created them.  An event handler runs  *)
(* to its first await as one step; the values it read before the await     *)
(* stay with the suspended call (the in-flight record), while functional   *)
(* updates (setX(prev => ...)) read the state current at the time they     *)
(* run.  The continuation after an await runs as one step.                 *)
(***************************************************************************)
EXTENDS Integers, Sequences, FiniteSets, TLC

VARIABLES
  variant,           \* which feed implementation is mounted
  catalogLen,        \* number of items of the (fixed) remote catalog
  mounted,           \* the mount effect has run
  videos,            \* useState([]): loaded items, in order
  page,              \* useState(0)
  hasMore,           \* useState(true)
  loading,           \* useState(...)
  error,             \* useState(null)
  refreshing,        \* useState(false)
  activeVideoIndex,  \* useState(0) (FullscreenFeed)
  inflight,          \* page fetches issued and not yet completed
  nextReq,           \* number of page fetches issued so far
  scrolls,           \* number of viewability reports so far
  watchCalls,        \* addToWatchHistory calls made by FullscreenFeed, in order
  lastEvent,         \* the handler or continuation that ran last
  run                \* "fresh": nothing called yet; "seq": so far loadInitial
                     \* then loadMore calls, each issued with no fetch
                     \* pending, none failed; "other" otherwise

VARIABLES
  initialVideoId,    \* FullscreenFeed's initialVideoId prop, 0 when not given
  hasInitialVideos,  \* FullscreenFeed was given an initialVideos array
  initialIndex,      \* loadVideos' local initialIndex as last computed
  pendingScroll      \* index of a scrollToIndex timer set by loadVideos,
                     \* -1 when none

targetVars == <<initialVideoId, hasInitialVideos, initialIndex, pendingScroll>>

VARIABLES
  consumer,          \* which implementation of the collection is in use
  collection,        \* which durable collection it works on
  hookMounted,       \* the hook's load effect has run
  storage,           \* AsyncStorage: key -> JSON text, or null when absent
  queue,             \* AsyncStorage requests not yet answered, oldest first
  favorites,         \* useState([]) of useFavoriteVideos
  favoritesSeen,     \* favorites as of the last render (what callbacks close over)
  history,           \* useState([]) of useWatchHistory
  historySeen,       \* history as of the last render
  now,               \* Date.now()
  calls,             \* number of collection calls made so far
  storeEvent,        \* the call or continuation that ran last
  orderly,           \* every call so far was made after the previous ones
                     \* had completed and the hook had re-rendered
  favAdded           \* per id, the number of the call that put the entry
                     \* now listed into the list

storeVars == <<consumer, collection, hookMounted, storage, queue, favorites,
               favoritesSeen, history, historySeen, now, calls, storeEvent,
               orderly, favAdded>>

VARIABLES
  recentSearches,      \* useState([]) of useRecentSearches / SearchScreen
  recentSearchesSeen,  \* recentSearches as of the last render
  settings,            \* useState({...}) of useAppSettings / SettingsScreen
  settingsSeen,        \* settings as of the last render
  searching            \* handleSearch calls awaiting fetchVideos

prefVars == <<recentSearches, recentSearchesSeen, settings, settingsSeen,
              searching>>

VARIABLES
  initPc,              \* where AppLayout's initializeApp stands
  detailPc,            \* where VideoDetailScreen's loadVideo stands
  detailId,            \* useLocalSearchParams().id of the detail screen
  detailVideo,         \* useState(null): << >> or <<video>>
  detailLoading,       \* useState(true)
  detailError,         \* useState(null): << >> or the message
  showDetails,         \* useState(false)
  detailIsFavorite,    \* useState(false) of the detail screen
  detailToggles        \* toggleFavorite calls awaiting storage, with the
                       \* isFavorite each closed over

VARIABLES
  playerMounted,       \* per FullscreenVideoPlayer: its hook's load effect ran
  playerFavorites,     \* per player: useState([]) of its useFavoriteVideos
  playerSeen,          \* per player: favorites as of its last render
  isLiked              \* per player: useState(false)

playerVars == <<playerMounted, playerFavorites, playerSeen, isLiked>>

VARIABLES
  searchQueryState,    \* useState('') searchQuery of the search screen
  searchPerformed,     \* useState(false) of the search screen
  tapTimers            \* setTimeout callbacks of handleRecentSearchTap not
                       \* yet run, each with the state of its render

tapVars == <<searchQueryState, searchPerformed, tapTimers>>

appVars == <<initPc, detailPc, detailId, detailVideo, detailLoading,
             detailError, showDetails, detailIsFavorite, detailToggles,
             playerVars, tapVars>>

detailVars == <<detailPc, detailId, detailVideo, detailLoading, detailError,
                showDetails, detailIsFavorite, detailToggles>>

feedVars == <<variant, catalogLen, mounted, videos, page, hasMore, loading,
              error, refreshing, activeVideoIndex, inflight, nextReq, scrolls,
              watchCalls, lastEvent, run, targetVars>>

vars == <<feedVars, storeVars, prefVars, appVars>>

----------------------------------------------------------------------------
(* Bounds *)

MaxFullPages == 2
ShortPage == 5
MaxFetches == 4
MaxScrolls == 2
MaxCalls == 3
MaxHistoryCalls == 2
MaxFresh == 1
MaxPrefCalls == 2
MaxReads == 2

(* Program constants *)

PAGE_SIZE == 10
HISTORY_LIMIT == 50
RECENT_LIMIT == 10
SCREEN_RECENT_LIMIT == 5

----------------------------------------------------------------------------
(* The remote catalog: item i has id i.  GET /videos?limit=&offset= answers  *)
(* with the items offset+1 .. offset+limit that exist.                      *)

Min(a, b) == IF a <= b THEN a ELSE b

CatalogSizes == { q * PAGE_SIZE + r : q \in 0..MaxFullPages, r \in {0, ShortPage} }

Catalog == [i \in 1..catalogLen |-> i]

FetchPage(limit, offset) ==
  IF offset >= catalogLen THEN << >>
  ELSE SubSeq(Catalog, offset + 1, Min(offset + limit, catalogLen))

NoError == "null"
Undefined == 0

Variants == {"useVideos", "FullscreenFeed", "HomeScreen"}

(* The initialVideoId the feed is given: none, the first item, an item of  *)
(* the first page, an item that is not on the first page.                  *)
TargetIds == {Undefined, 1, 3, PAGE_SIZE + 1}

NoEvent == [name |-> "none", op |-> "none", req |-> 0, n |-> 0]
Event(nm, op, req, n) == [name |-> nm, op |-> op, req |-> req, n |-> n]

----------------------------------------------------------------------------
(* Initial state: the component after its first render.                    *)

InitFeed ==
  /\ variant \in Variants
  /\ catalogLen \in CatalogSizes
  /\ mounted = (variant = "useVideos")
  /\ videos = << >>
  /\ page = 0
  /\ hasMore = TRUE
  /\ loading = (variant # "useVideos")
  /\ error = NoError
  /\ refreshing = FALSE
  /\ activeVideoIndex = 0
  /\ inflight = {}
  /\ nextReq = 0
  /\ scrolls = 0
  /\ watchCalls = << >>
  /\ lastEvent = NoEvent
  /\ run = "fresh"
  /\ initialVideoId \in IF variant = "FullscreenFeed" THEN TargetIds
                         ELSE {Undefined}
  /\ hasInitialVideos = FALSE
  /\ initialIndex = 0
  /\ pendingScroll = -1

----------------------------------------------------------------------------
(* What the screen shows (FullscreenFeed and HomeScreen render the list,   *)
(* and with it onEndReached, the refresh control and the viewability       *)
(* callback, only when neither the loading nor the error screen is up).    *)

loadingShown == loading /\ videos = << >>
errorShown == ~loadingShown /\ error # NoError /\ videos = << >>
listShown == ~loadingShown /\ ~errorShown

(* FullscreenFeed's watch-history effect, deps [activeVideoIndex, videos]:  *)
(* it runs after a render in which either changed; setVideos always        *)
(* installs a new array.  videos[activeVideoIndex] is undefined past the   *)
(* end of the array.                                                       *)

VideoAt(vs, i) == IF i >= 0 /\ i < Len(vs) THEN vs[i + 1] ELSE Undefined

WatchEffect(vs, i) ==
  IF variant = "FullscreenFeed" /\ Len(vs) > 0 /\ i >= 0
  THEN Append(watchCalls, VideoAt(vs, i))
  ELSE watchCalls

----------------------------------------------------------------------------
(* useApi.fetchData up to its await: setLoading(true), setError(null) and  *)
(* the request.                                                            *)

fetchData(f) ==
  /\ loading' = TRUE
  /\ error' = NoError
  /\ inflight' = inflight \cup {f}
  /\ nextReq' = nextReq + 1

Request(op, isRefresh, pg, off) ==
  [req |-> nextReq + 1, op |-> op, refresh |-> isRefresh, page |-> pg,
   offset |-> off]

pageSize == PAGE_SIZE

(* useVideos.loadInitial; useVideos.refresh returns loadInitial().         *)
loadInitial(op) ==
  /\ variant = "useVideos"
  /\ nextReq < MaxFetches
  /\ page' = 0
  /\ hasMore' = TRUE
  /\ fetchData(Request(op, TRUE, 0, 0))
  /\ lastEvent' = Event("issue", op, nextReq + 1, 0)
  /\ run' = IF op = "loadInitial" /\ run = "fresh" /\ inflight = {}
            THEN "seq" ELSE "other"
  /\ UNCHANGED storeVars
  /\ UNCHANGED targetVars
  /\ UNCHANGED appVars
  /\ UNCHANGED prefVars
  /\ UNCHANGED <<variant, catalogLen, mounted, videos, refreshing,
                 activeVideoIndex, scrolls, watchCalls>>

UseVideosLoadInitial == loadInitial("loadInitial")

refresh == loadInitial("refresh")

(* useVideos.loadMore: if (loading || !hasMore) return; then the next      *)
(* page's offset.                                                          *)
LoadMoreGuard_blockedByError == ~(loading \/ ~hasMore) /\ error = NoError

LoadMoreGuard == ~(loading \/ ~hasMore)

nextPage == page + 1

offset_skipsNothing == page * pageSize

offset == nextPage * pageSize

loadMore ==
  /\ variant = "useVideos"
  /\ run' = IF run = "seq" /\ inflight = {} THEN "seq" ELSE "other"
  /\ IF LoadMoreGuard
     THEN /\ nextReq < MaxFetches
          /\ fetchData(Request("loadMore", FALSE, nextPage, offset))
          /\ lastEvent' = Event("issue", "loadMore", nextReq + 1, 0)
          /\ UNCHANGED <<page, hasMore>>
     ELSE /\ lastEvent' = Event("drop", "loadMore", 0, 0)
          /\ UNCHANGED <<page, hasMore, loading, error, inflight, nextReq>>
  /\ UNCHANGED storeVars
  /\ UNCHANGED targetVars
  /\ UNCHANGED appVars
  /\ UNCHANGED prefVars
  /\ UNCHANGED <<variant, catalogLen, mounted, videos, refreshing,
                 activeVideoIndex, scrolls, watchCalls>>

(* The request of useVideos answers 2xx: fetchData's tail (setData,        *)
(* finally setLoading(false)) and the caller's continuation.               *)
UseVideosFetchOk(f) ==
  /\ variant = "useVideos"
  /\ f \in inflight
  /\ LET result == FetchPage(pageSize, f.offset) IN
       /\ videos' = IF f.op = "loadMore" THEN videos \o result ELSE result
       /\ hasMore' = (Len(result) >= pageSize)
       /\ page' = IF f.op = "loadMore" THEN f.page ELSE page
       /\ lastEvent' = Event("fetchOk", f.op, f.req, Len(result))
  /\ loading' = FALSE
  /\ inflight' = inflight \ {f}
  /\ UNCHANGED storeVars
  /\ UNCHANGED targetVars
  /\ UNCHANGED appVars
  /\ UNCHANGED prefVars
  /\ UNCHANGED <<variant, catalogLen, mounted, error, refreshing,
                 activeVideoIndex, nextReq, scrolls, watchCalls, run>>

(* The request fails (non-2xx or transport): setError(handleApiError(err)), *)
(* return null, finally setLoading(false); the caller's if (result) skips. *)
UseVideosFetchFail(f) ==
  /\ variant = "useVideos"
  /\ f \in inflight
  /\ error' = "An error occurred"
  /\ loading' = FALSE
  /\ inflight' = inflight \ {f}
  /\ lastEvent' = Event("fetchFail", f.op, f.req, 0)
  /\ run' = "other"
  /\ UNCHANGED storeVars
  /\ UNCHANGED targetVars
  /\ UNCHANGED appVars
  /\ UNCHANGED prefVars
  /\ UNCHANGED <<variant, catalogLen, mounted, videos, page, hasMore,
                 refreshing, activeVideoIndex, nextReq, scrolls, watchCalls>>

----------------------------------------------------------------------------
(* FullscreenFeed.loadVideos / HomeScreen.loadVideos up to the await.      *)
(* `refresh` resets page and hasMore first; the early return leaves        *)
(* through finally.  `pulling` is the value handleRefresh gave to           *)
(* refreshing just before the call.                                        *)

loadVideos(isRefresh, op, pulling) ==
  IF ~hasMore /\ ~isRefresh
  THEN /\ loading' = FALSE
       /\ refreshing' = FALSE
       /\ lastEvent' = Event("drop", op, 0, 0)
       /\ UNCHANGED <<page, hasMore, error, inflight, nextReq>>
  ELSE /\ nextReq < MaxFetches
       /\ page' = IF isRefresh THEN 0 ELSE page
       /\ hasMore' = IF isRefresh THEN TRUE ELSE hasMore
       /\ LET pageToLoad == IF isRefresh THEN 0 ELSE page IN
            fetchData(Request(op, isRefresh, pageToLoad, pageToLoad * PAGE_SIZE))
       /\ refreshing' = pulling
       /\ lastEvent' = Event("issue", op, nextReq + 1, 0)

(* useEffect(() => { loadVideos() }, []) after the first render.           *)
Mount ==
  /\ variant \in {"FullscreenFeed", "HomeScreen"}
  /\ ~mounted
  /\ ~hasInitialVideos
  /\ mounted' = TRUE
  /\ loadVideos(FALSE, "mount", refreshing)
  /\ UNCHANGED storeVars
  /\ UNCHANGED targetVars
  /\ UNCHANGED appVars
  /\ UNCHANGED prefVars
  /\ UNCHANGED <<variant, catalogLen, videos, activeVideoIndex, scrolls,
                 watchCalls, run>>

(* handleEndReached: if (!loading && hasMore) loadVideos().                *)
EndReachedGuard == ~loading /\ hasMore

handleEndReached ==
  /\ variant \in {"FullscreenFeed", "HomeScreen"}
  /\ mounted
  /\ listShown
  /\ IF EndReachedGuard
     THEN loadVideos(FALSE, "loadMore", refreshing)
     ELSE /\ lastEvent' = Event("drop", "loadMore", 0, 0)
          /\ UNCHANGED <<page, hasMore, loading, error, refreshing, inflight,
                         nextReq>>
  /\ UNCHANGED storeVars
  /\ UNCHANGED targetVars
  /\ UNCHANGED appVars
  /\ UNCHANGED prefVars
  /\ UNCHANGED <<variant, catalogLen, mounted, videos, activeVideoIndex,
                 scrolls, watchCalls, run>>

(* The Retry button of the error screen: loadVideos(true).                 *)
Retry ==
  /\ variant \in {"FullscreenFeed", "HomeScreen"}
  /\ mounted
  /\ errorShown
  /\ loadVideos(TRUE, "retry", refreshing)
  /\ UNCHANGED storeVars
  /\ UNCHANGED targetVars
  /\ UNCHANGED appVars
  /\ UNCHANGED prefVars
  /\ UNCHANGED <<variant, catalogLen, mounted, videos, activeVideoIndex,
                 scrolls, watchCalls, run>>

(* HomeScreen.handleRefresh (pull to refresh).                             *)
handleRefresh ==
  /\ variant = "HomeScreen"
  /\ mounted
  /\ listShown
  /\ loadVideos(TRUE, "refresh", TRUE)
  /\ UNCHANGED storeVars
  /\ UNCHANGED targetVars
  /\ UNCHANGED appVars
  /\ UNCHANGED prefVars
  /\ UNCHANGED <<variant, catalogLen, mounted, videos, activeVideoIndex,
                 scrolls, watchCalls, run>>

(* fetchVideos resolved: the rest of loadVideos' try block and finally.    *)
(* Array.prototype.findIndex with v => v.id === id: the zero-based index   *)
(* of the first match, -1 when there is none.                              *)
findIndex_oneBased(list, id) ==
  IF \E i \in DOMAIN list : list[i] = id
  THEN CHOOSE i \in DOMAIN list :
         list[i] = id /\ \A j \in 1..(i - 1) : list[j] # id
  ELSE -1

findIndex(list, id) ==
  IF \E i \in DOMAIN list : list[i] = id
  THEN (CHOOSE i \in DOMAIN list :
          list[i] = id /\ \A j \in 1..(i - 1) : list[j] # id) - 1
  ELSE -1

(* FullscreenFeed.loadVideos: let initialIndex = 0; with an initialVideoId *)
(* and refresh, the found index when there is one.                         *)
initialIndexOf(fetchedVideos, isRefresh) ==
  IF initialVideoId # Undefined /\ isRefresh
     /\ findIndex(fetchedVideos, initialVideoId) # -1
  THEN findIndex(fetchedVideos, initialVideoId)
  ELSE 0

(* fetchVideos resolved: the rest of loadVideos' try block and finally.    *)
(* In FullscreenFeed the request for scrollToIndex needs the list to be    *)
(* mounted (flatListRef.current).                                          *)
LoadVideosOk(f) ==
  /\ variant \in {"FullscreenFeed", "HomeScreen"}
  /\ f \in inflight
  /\ LET fetchedVideos == FetchPage(PAGE_SIZE, f.offset)
         newVideos == IF f.refresh THEN fetchedVideos
                      ELSE videos \o fetchedVideos
     IN /\ hasMore' = IF Len(fetchedVideos) < PAGE_SIZE THEN FALSE ELSE hasMore
        /\ videos' = newVideos
        /\ watchCalls' = WatchEffect(newVideos, activeVideoIndex)
        /\ lastEvent' = Event("fetchOk", f.op, f.req, Len(fetchedVideos))
        /\ IF variant = "FullscreenFeed"
           THEN LET index == initialIndexOf(fetchedVideos, f.refresh) IN
                  /\ initialIndex' = index
                  /\ pendingScroll' = IF f.refresh /\ listShown /\ index > 0
                                      THEN index ELSE pendingScroll
           ELSE UNCHANGED <<initialIndex, pendingScroll>>
  /\ UNCHANGED <<initialVideoId, hasInitialVideos>>
  /\ page' = f.page + 1
  /\ loading' = FALSE
  /\ refreshing' = FALSE
  /\ inflight' = inflight \ {f}
  /\ UNCHANGED storeVars
  /\ UNCHANGED appVars
  /\ UNCHANGED prefVars
  /\ UNCHANGED <<variant, catalogLen, mounted, error, activeVideoIndex,
                 nextReq, scrolls, run>>

(* fetchVideos threw: catch sets the error, finally clears the flags.      *)
LoadVideosFail(f) ==
  /\ variant \in {"FullscreenFeed", "HomeScreen"}
  /\ f \in inflight
  /\ error' = "Failed to load videos"
  /\ loading' = FALSE
  /\ refreshing' = FALSE
  /\ inflight' = inflight \ {f}
  /\ lastEvent' = Event("fetchFail", f.op, f.req, 0)
  /\ UNCHANGED storeVars
  /\ UNCHANGED targetVars
  /\ UNCHANGED appVars
  /\ UNCHANGED prefVars
  /\ UNCHANGED <<variant, catalogLen, mounted, videos, page, hasMore,
                 activeVideoIndex, nextReq, scrolls, watchCalls, run>>

(* FullscreenFeed.handleViewableItemsChanged: the list reports its first   *)
(* viewable item; setActiveVideoIndex re-renders only on a new value.      *)
ScrollTargets == {0, 1, Len(videos) - 1} \cap (0..(Len(videos) - 1))

handleViewableItemsChanged(i) ==
  /\ variant = "FullscreenFeed"
  /\ mounted
  /\ listShown
  /\ scrolls < MaxScrolls
  /\ i \in ScrollTargets
  /\ scrolls' = scrolls + 1
  /\ activeVideoIndex' = i
  /\ watchCalls' = IF i # activeVideoIndex THEN WatchEffect(videos, i)
                   ELSE watchCalls
  /\ lastEvent' = Event("viewable", "scroll", 0, i)
  /\ UNCHANGED storeVars
  /\ UNCHANGED targetVars
  /\ UNCHANGED appVars
  /\ UNCHANGED prefVars
  /\ UNCHANGED <<variant, catalogLen, mounted, videos, page, hasMore, loading,
                 error, refreshing, inflight, nextReq, run>>

----------------------------------------------------------------------------

(* FullscreenFeed given initialVideos: useState(initialVideos || []),      *)
(* loading false, no load on mount.  The arrays a caller hands over: the   *)
(* empty one, the start of the catalog, a selection in another order.      *)
InitialVideoLists == {<< >>, <<1, 2, 3>>, <<5, 3>>}

InitSeededFeed ==
  /\ variant = "FullscreenFeed"
  /\ catalogLen \in CatalogSizes
  /\ mounted = FALSE
  /\ videos \in InitialVideoLists
  /\ \A i \in DOMAIN videos : videos[i] <= catalogLen
  /\ page = 0
  /\ hasMore = TRUE
  /\ loading = FALSE
  /\ error = NoError
  /\ refreshing = FALSE
  /\ activeVideoIndex = 0
  /\ inflight = {}
  /\ nextReq = 0
  /\ scrolls = 0
  /\ watchCalls = << >>
  /\ lastEvent = NoEvent
  /\ run = "fresh"
  /\ initialVideoId \in TargetIds
  /\ hasInitialVideos = TRUE
  /\ initialIndex = 0
  /\ pendingScroll = -1

(* The initial-index effect: with initialVideos and an initialVideoId it   *)
(* looks the id up and, if (foundIndex !== -1), makes it the active index. *)
initialActiveIndex_unchecked(list, id) ==
  IF Len(list) > 0 /\ id # Undefined THEN findIndex(list, id) ELSE 0

initialActiveIndex(list, id) ==
  IF Len(list) > 0 /\ id # Undefined /\ findIndex(list, id) # -1
  THEN findIndex(list, id)
  ELSE 0

(* The mount effects of a FullscreenFeed given initialVideos: no load; the *)
(* watch-history effect for the first render; the initial-index effect     *)
(* with its scrollToIndex timer; the watch-history effect again when the   *)
(* active index changed.                                                   *)
MountWithInitialVideos ==
  /\ variant = "FullscreenFeed"
  /\ ~mounted
  /\ hasInitialVideos
  /\ mounted' = TRUE
  /\ LET found == Len(videos) > 0 /\ initialVideoId # Undefined
                  /\ findIndex(videos, initialVideoId) # -1
         index == initialActiveIndex(videos, initialVideoId)
         first == IF Len(videos) > 0 /\ activeVideoIndex >= 0
                  THEN <<VideoAt(videos, activeVideoIndex)>> ELSE << >>
         second == IF Len(videos) > 0 /\ index >= 0
                      /\ index # activeVideoIndex
                   THEN <<VideoAt(videos, index)>> ELSE << >>
     IN /\ activeVideoIndex' = index
        /\ pendingScroll' = IF found THEN index ELSE pendingScroll
        /\ watchCalls' = watchCalls \o first \o second
        /\ lastEvent' = Event("mount", "mount", 0, index)
  /\ UNCHANGED storeVars
  /\ UNCHANGED appVars
  /\ UNCHANGED prefVars
  /\ UNCHANGED <<variant, catalogLen, videos, page, hasMore, loading, error,
                 refreshing, inflight, nextReq, scrolls, run>>
  /\ UNCHANGED <<initialVideoId, hasInitialVideos, initialIndex>>

(* The scrollToIndex timer runs: if (flatListRef.current) the list jumps   *)
(* to the index and reports that item as viewable.                         *)
ScrollTimerFires ==
  /\ variant = "FullscreenFeed"
  /\ pendingScroll # -1
  /\ pendingScroll' = -1
  /\ IF listShown
     THEN /\ activeVideoIndex' = pendingScroll
          /\ watchCalls' = IF pendingScroll # activeVideoIndex
                           THEN WatchEffect(videos, pendingScroll)
                           ELSE watchCalls
     ELSE UNCHANGED <<activeVideoIndex, watchCalls>>
  /\ lastEvent' = Event("viewable", "scrollToIndex", 0, pendingScroll)
  /\ UNCHANGED storeVars
  /\ UNCHANGED appVars
  /\ UNCHANGED prefVars
  /\ UNCHANGED <<variant, catalogLen, mounted, videos, page, hasMore, loading,
                 error, refreshing, inflight, nextReq, scrolls, run>>
  /\ UNCHANGED <<initialVideoId, hasInitialVideos, initialIndex>>

(* FullscreenFeed alone, with or without initialVideos.                    *)
FullscreenNext ==
  \/ Mount
  \/ MountWithInitialVideos
  \/ ScrollTimerFires
  \/ handleEndReached
  \/ Retry
  \/ \E f \in inflight : LoadVideosOk(f)
  \/ \E f \in inflight : LoadVideosFail(f)
  \/ \E i \in 0..(Len(videos) - 1) : handleViewableItemsChanged(i)

FeedNext ==
  \/ UseVideosLoadInitial
  \/ refresh
  \/ loadMore
  \/ \E f \in inflight : UseVideosFetchOk(f)
  \/ \E f \in inflight : UseVideosFetchFail(f)
  \/ Mount
  \/ handleEndReached
  \/ Retry
  \/ handleRefresh
  \/ \E f \in inflight : LoadVideosOk(f)
  \/ \E f \in inflight : LoadVideosFail(f)
  \/ \E i \in 0..(Len(videos) - 1) : handleViewableItemsChanged(i)

----------------------------------------------------------------------------
(* The durable collections (favorites, watch history).  AsyncStorage holds *)
(* one JSON text per key; getItem answers null for an absent key.  A text  *)
(* is the one-element sequence of the value it encodes, null the empty     *)
(* sequence, so that a value and its text are never the same thing.        *)

NoId == 0
Null == << >>

FAVORITE_VIDEOS == "paperbites_favorite_videos"
WATCH_HISTORY == "paperbites_watch_history"
RECENT_SEARCHES == "paperbites_recent_searches"
APP_SETTINGS == "paperbites_app_settings"
STORAGE_KEYS == {RECENT_SEARCHES, FAVORITE_VIDEOS, WATCH_HISTORY, APP_SETTINGS}

JSON_stringify(value) == <<value>>
JSON_parse(text) == text[1]

(* jsonValue != null ? JSON.parse(jsonValue) : []                           *)
ParseOrEmpty(jsonValue) ==
  IF jsonValue # Null THEN JSON_parse(jsonValue) ELSE << >>

(* A text that is no JSON: JSON.parse of it throws.  Readable tells        *)
(* whether jsonValue != null ? JSON.parse(jsonValue) : [] gets through,    *)
(* that is, the key is absent or its text parses.                          *)
Corrupt == <<"{", "{">>
Readable(jsonValue) == jsonValue = Null \/ Len(jsonValue) = 1

(* AsyncStorage.setItem(key, text): the whole text under the key is        *)
(* replaced.                                                               *)
setItem_ifAbsent(store, key, text) ==
  IF store[key] = Null THEN [store EXCEPT ![key] = text] ELSE store

setItem(store, key, text) == [store EXCEPT ![key] = text]

(* What a mutation returns once its setItem is answered: the hooks return  *)
(* true, or false from the catch block; the functions of services/storage  *)
(* return nothing either way.                                              *)
HookResult(ok) == IF ok THEN "true" ELSE "false"
ServiceResult(ok) == "undefined"

(* list.some(item => item.id === id), list.filter(item => item.id !== id)   *)
Some(list, id) == \E i \in DOMAIN list : list[i].id = id
Without(list, id) == SelectSeq(list, LAMBDA item : item.id # id)

HookA == "frontend/hooks/useStorage"
HookB == "frontend/paperbites-frontend/hooks/useStorage"
Service == "services/storage"
Hooks == {HookA, HookB}

(* useWatchHistory exists in frontend/hooks/useStorage only.               *)
Uses == {<<HookA, "favorites">>, <<HookB, "favorites">>,
         <<Service, "favorites">>, <<HookA, "history">>,
         <<Service, "history">>}

Key ==
  IF collection = "favorites" THEN FAVORITE_VIDEOS
  ELSE IF collection = "searches" THEN RECENT_SEARCHES
  ELSE IF collection = "settings" THEN APP_SETTINGS
  ELSE WATCH_HISTORY

(* The videos the favorites calls are made with: two with ids, one        *)
(* without.                                                                *)
VideoIds == {1, 2}
Videos == [id : {NoId} \cup VideoIds]

(* A watch history written earlier: entry i is video i, watched at time 0. *)
SeededHistory(n) == [i \in 1..n |-> [id |-> i, watchedAt |-> 0]]
SeedLens == {0, HISTORY_LIMIT - 1, HISTORY_LIMIT}
HistoryVideos ==
  [id : {NoId, 1, HISTORY_LIMIT}
        \cup ((HISTORY_LIMIT + 1)..(HISTORY_LIMIT + MaxFresh))]

NoStoreEvent ==
  [name |-> "none", call |-> 0, api |-> "none", via |-> "none", arg |-> 0,
   result |-> "none", ok |-> TRUE, t |-> 0]
StoreEvent(nm, c, api, via, arg, result, ok, t) ==
  [name |-> nm, call |-> c, api |-> api, via |-> via, arg |-> arg,
   result |-> result, ok |-> ok, t |-> t]

(* One AsyncStorage request: the call it belongs to, the function the      *)
(* caller invoked (api), the function that awaits it (via), and the text   *)
(* handed to setItem.                                                      *)
Op(c, api, via, kind, text, arg) ==
  [call |-> c, api |-> api, via |-> via, kind |-> kind, text |-> text,
   arg |-> arg]

FeedIdle ==
  /\ variant = "none"
  /\ catalogLen = 0
  /\ mounted = FALSE
  /\ videos = << >>
  /\ page = 0
  /\ hasMore = TRUE
  /\ loading = FALSE
  /\ error = NoError
  /\ refreshing = FALSE
  /\ activeVideoIndex = 0
  /\ inflight = {}
  /\ nextReq = 0
  /\ scrolls = 0
  /\ watchCalls = << >>
  /\ lastEvent = NoEvent
  /\ run = "fresh"
  /\ initialVideoId = Undefined
  /\ hasInitialVideos = FALSE
  /\ initialIndex = 0
  /\ pendingScroll = -1

StoreIdle ==
  /\ consumer = "none"
  /\ collection = "none"
  /\ hookMounted = FALSE
  /\ storage = [k \in STORAGE_KEYS |-> Null]
  /\ queue = << >>
  /\ favorites = << >>
  /\ favoritesSeen = << >>
  /\ history = << >>
  /\ historySeen = << >>
  /\ now = 1
  /\ calls = 0
  /\ storeEvent = NoStoreEvent
  /\ orderly = TRUE
  /\ favAdded = [i \in {NoId} \cup VideoIds |-> 0]

(* The hooks start with useState([]); the documents are absent on a first  *)
(* start, or hold what earlier runs wrote.                                 *)
InitStore ==
  /\ \E use \in Uses : consumer = use[1] /\ collection = use[2]
  /\ hookMounted = FALSE
  /\ \E text \in IF collection = "favorites"
                 THEN {Null, JSON_stringify(<< >>)}
                 ELSE {Null} \cup
                      {JSON_stringify(SeededHistory(n)) : n \in SeedLens} :
       storage = [k \in STORAGE_KEYS |-> IF k = Key THEN text ELSE Null]
  /\ queue = << >>
  /\ favorites = << >>
  /\ favoritesSeen = << >>
  /\ history = << >>
  /\ historySeen = << >>
  /\ now = 1
  /\ calls = 0
  /\ storeEvent = NoStoreEvent
  /\ orderly = TRUE
  /\ favAdded = [i \in {NoId} \cup VideoIds |-> 0]

(* A call is made in sequence when nothing is pending and the hook has     *)
(* rendered its current state.                                             *)
Settled ==
  /\ queue = << >>
  /\ favoritesSeen = favorites
  /\ historySeen = history
  /\ recentSearchesSeen = recentSearches
  /\ settingsSeen = settings
  /\ searching = {}

CallLimit ==
  IF collection = "history" THEN MaxHistoryCalls
  ELSE IF collection \in {"searches", "settings"} THEN MaxPrefCalls
  ELSE MaxCalls

MakeCall ==
  /\ calls < CallLimit
  /\ calls' = calls + 1
  /\ orderly' = (orderly /\ Settled)

----------------------------------------------------------------------------
(* The hooks of useStorage.js.                                             *)

(* useEffect(() => { loadFavorites() / loadHistory() }, []) up to the      *)
(* await of getItem.                                                       *)
HookMount ==
  /\ consumer \in Hooks
  /\ ~hookMounted
  /\ hookMounted' = TRUE
  /\ queue' = Append(queue, Op(0, "load", "load", "getItem", Null, 0))
  /\ storeEvent' = StoreEvent("mount", 0, "load", "load", 0, "pending", TRUE, 0)
  /\ UNCHANGED feedVars
  /\ UNCHANGED appVars
  /\ UNCHANGED prefVars
  /\ UNCHANGED <<consumer, collection, storage, favorites, favoritesSeen,
                 history, historySeen, now, calls, orderly, favAdded>>

(* getItem answered: setFavorites / setHistory of the parsed document; a   *)
(* failed read or a text that does not parse only sets the hook's error.   *)
LoadDone(ok) ==
  /\ consumer \in Hooks
  /\ collection \in {"favorites", "history"}
  /\ queue # << >>
  /\ Head(queue).api = "load"
  /\ queue' = Tail(queue)
  /\ LET set == ok /\ Readable(storage[Key])
         loaded == ParseOrEmpty(storage[Key])
     IN /\ favorites' = IF set /\ collection = "favorites" THEN loaded
                        ELSE favorites
        /\ history' = IF set /\ collection = "history" THEN loaded
                      ELSE history
  /\ storeEvent' = StoreEvent("load", 0, "load", "load", 0, "none", ok, 0)
  /\ UNCHANGED feedVars
  /\ UNCHANGED appVars
  /\ UNCHANGED prefVars
  /\ UNCHANGED <<consumer, collection, hookMounted, storage, favoritesSeen,
                 historySeen, now, calls, orderly, favAdded>>

(* React re-renders the component: the callbacks now close over the        *)
(* current state.                                                          *)
Render ==
  /\ consumer \in Hooks
  /\ <<favoritesSeen, historySeen>> # <<favorites, history>>
  /\ favoritesSeen' = favorites
  /\ historySeen' = history
  /\ storeEvent' = StoreEvent("render", 0, "none", "none", 0, "none", TRUE, 0)
  /\ UNCHANGED feedVars
  /\ UNCHANGED appVars
  /\ UNCHANGED prefVars
  /\ UNCHANGED <<consumer, collection, hookMounted, storage, queue, favorites,
                 history, now, calls, orderly, favAdded>>

(* useFavoriteVideos.isFavorite: favorites.some(video => video.id === id)  *)
(* over the favorites of the render the callback belongs to.               *)
isFavorite(videoId) == Some(favoritesSeen, videoId)

(* [video, ...favorites]                                                   *)
updatedFavorites_appended(video, list) == list \o <<video>>

updatedFavorites(video, list) == <<video>> \o list

(* The call that put the entry now listed into the list: call c, when it   *)
(* adds an id the list does not hold.                                      *)
NoteAdded(list, id, c) ==
  IF ~Some(list, id)
  THEN [favAdded EXCEPT ![id] = c]
  ELSE favAdded

(* useFavoriteVideos.addFavorite up to its return or its await.            *)
addFavorite(api, video) ==
  IF video.id = NoId
  THEN /\ storeEvent' = StoreEvent("return", calls + 1, api, "addFavorite",
                                   video.id, "false", TRUE, 0)
       /\ UNCHANGED <<favorites, queue, favAdded>>
  ELSE IF isFavorite(video.id)
  THEN /\ storeEvent' = StoreEvent("return", calls + 1, api, "addFavorite",
                                   video.id, "true", TRUE, 0)
       /\ UNCHANGED <<favorites, queue, favAdded>>
  ELSE /\ favorites' = updatedFavorites(video, favoritesSeen)
       /\ queue' = Append(queue,
            Op(calls + 1, api, "addFavorite", "setItem",
               JSON_stringify(updatedFavorites(video, favoritesSeen)),
               video.id))
       /\ favAdded' = NoteAdded(favorites, video.id, calls + 1)
       /\ storeEvent' = StoreEvent("call", calls + 1, api, "addFavorite",
                                   video.id, "pending", TRUE, 0)

(* useFavoriteVideos.removeFavorite up to its await.                       *)
removeFavorite(api, videoId) ==
  /\ favorites' = Without(favoritesSeen, videoId)
  /\ queue' = Append(queue,
       Op(calls + 1, api, "removeFavorite", "setItem",
          JSON_stringify(Without(favoritesSeen, videoId)), videoId))
  /\ favAdded' = favAdded
  /\ storeEvent' = StoreEvent("call", calls + 1, api, "removeFavorite",
                              videoId, "pending", TRUE, 0)

(* What removeFavorite returns after its setItem: true on success and      *)
(* false on error in frontend/hooks, false on success and true on error in *)
(* paperbites-frontend/hooks.                                              *)
removeFavoriteResult(ok) ==
  IF consumer = HookA
  THEN (IF ok THEN "true" ELSE "false")
  ELSE (IF ok THEN "false" ELSE "true")

(* useFavoriteVideos.toggleFavorite.  paperbites-frontend/hooks answers    *)
(* isFavorite('') for a video without id.                                  *)
toggleFavorite(video) ==
  IF consumer = HookB /\ video.id = NoId
  THEN /\ storeEvent' = StoreEvent("return", calls + 1, "toggleFavorite",
                                   "toggleFavorite", video.id, "false", TRUE, 0)
       /\ UNCHANGED <<favorites, queue, favAdded>>
  ELSE IF isFavorite(video.id)
  THEN removeFavorite("toggleFavorite", video.id)
  ELSE addFavorite("toggleFavorite", video)

CallAddFavorite(video) ==
  /\ consumer \in Hooks /\ collection = "favorites" /\ hookMounted
  /\ MakeCall
  /\ addFavorite("addFavorite", video)
  /\ UNCHANGED feedVars
  /\ UNCHANGED appVars
  /\ UNCHANGED prefVars
  /\ UNCHANGED <<consumer, collection, hookMounted, storage, favoritesSeen,
                 history, historySeen, now>>

CallRemoveFavorite(videoId) ==
  /\ consumer \in Hooks /\ collection = "favorites" /\ hookMounted
  /\ MakeCall
  /\ removeFavorite("removeFavorite", videoId)
  /\ UNCHANGED feedVars
  /\ UNCHANGED appVars
  /\ UNCHANGED prefVars
  /\ UNCHANGED <<consumer, collection, hookMounted, storage, favoritesSeen,
                 history, historySeen, now>>

CallToggleFavorite(video) ==
  /\ consumer \in Hooks /\ collection = "favorites" /\ hookMounted
  /\ MakeCall
  /\ toggleFavorite(video)
  /\ UNCHANGED feedVars
  /\ UNCHANGED appVars
  /\ UNCHANGED prefVars
  /\ UNCHANGED <<consumer, collection, hookMounted, storage, favoritesSeen,
                 history, historySeen, now>>

(* history.filter(item => item.id !== video.id)                            *)
filteredHistory_keepsPrior(list, id) == list

filteredHistory(list, id) == Without(list, id)

(* [{ ...video, watchedAt: Date.now() }, ...filteredHistory]                *)
updatedHistory(video, t, filtered) ==
  <<[id |-> video.id, watchedAt |-> t]>> \o filtered

(* updatedHistory.slice(0, 50)                                             *)
limitedHistory_uncapped(updated) == updated

limitedHistory(updated) ==
  SubSeq(updated, 1, Min(Len(updated), HISTORY_LIMIT))

(* The list addToHistory / addToWatchHistory computes from `list`.         *)
HistoryWith(video, t, list) ==
  limitedHistory(updatedHistory(video, t, filteredHistory(list, video.id)))

(* Date.now(): every reading is later than the one before.                 *)
Clock == {now + 1}

(* useWatchHistory.addToHistory up to its return or its await.             *)
addToHistory(video, t) ==
  IF video.id = NoId
  THEN /\ storeEvent' = StoreEvent("return", calls + 1, "addToHistory",
                                   "addToHistory", video.id, "false", TRUE, 0)
       /\ UNCHANGED <<history, queue, now>>
  ELSE /\ now' = t
       /\ history' = HistoryWith(video, t, historySeen)
       /\ queue' = Append(queue,
            Op(calls + 1, "addToHistory", "addToHistory", "setItem",
               JSON_stringify(HistoryWith(video, t, historySeen)), video.id))
       /\ storeEvent' = StoreEvent("call", calls + 1, "addToHistory",
                                   "addToHistory", video.id, "pending", TRUE, t)

CallAddToHistory(video) ==
  /\ consumer = HookA /\ collection = "history" /\ hookMounted
  /\ MakeCall
  /\ \E t \in Clock : addToHistory(video, t)
  /\ UNCHANGED feedVars
  /\ UNCHANGED appVars
  /\ UNCHANGED prefVars
  /\ UNCHANGED <<consumer, collection, hookMounted, storage, favorites,
                 favoritesSeen, historySeen, favAdded>>

(* useWatchHistory.clearHistory up to its await: the write comes first,    *)
(* setHistory([]) after it.                                                *)
CallClearHistory ==
  /\ consumer = HookA /\ collection = "history" /\ hookMounted
  /\ MakeCall
  /\ queue' = Append(queue,
       Op(calls + 1, "clearHistory", "clearHistory", "setItem",
          JSON_stringify(<< >>), 0))
  /\ storeEvent' = StoreEvent("call", calls + 1, "clearHistory",
                              "clearHistory", 0, "pending", TRUE, 0)
  /\ UNCHANGED feedVars
  /\ UNCHANGED appVars
  /\ UNCHANGED prefVars
  /\ UNCHANGED <<consumer, collection, hookMounted, storage, favorites,
                 favoritesSeen, history, historySeen, now, favAdded>>

(* setItem of a hook call answered: the text is stored, or the write       *)
(* threw and the catch block returns.                                      *)
HookWriteDone(ok) ==
  /\ consumer \in Hooks
  /\ collection \in {"favorites", "history"}
  /\ queue # << >>
  /\ Head(queue).kind = "setItem"
  /\ LET op == Head(queue) IN
       /\ queue' = Tail(queue)
       /\ storage' = IF ok THEN setItem(storage, Key, op.text) ELSE storage
       /\ history' = IF ok /\ op.via = "clearHistory" THEN << >> ELSE history
       /\ storeEvent' = StoreEvent("return", op.call, op.api, op.via, op.arg,
            IF op.via = "removeFavorite" THEN removeFavoriteResult(ok)
            ELSE HookResult(ok), ok, 0)
  /\ UNCHANGED feedVars
  /\ UNCHANGED appVars
  /\ UNCHANGED prefVars
  /\ UNCHANGED <<consumer, collection, hookMounted, favorites, favoritesSeen,
                 historySeen, now, calls, orderly, favAdded>>

----------------------------------------------------------------------------
(* The functions of services/storage.js.  Each reads the whole document,   *)
(* computes the new list and writes the whole document back; every error   *)
(* is caught and logged and the function returns undefined.                *)

(* addFavoriteVideo / removeFavoriteVideo / addToWatchHistory up to the    *)
(* getItem that getFavoriteVideos / getWatchHistory awaits.                *)
ServiceCall(api, via, arg) ==
  /\ consumer = Service
  /\ MakeCall
  /\ queue' = Append(queue, Op(calls + 1, api, via, "getItem", Null, arg))
  /\ storeEvent' = StoreEvent("call", calls + 1, api, via, arg, "pending",
                              TRUE, 0)
  /\ UNCHANGED feedVars
  /\ UNCHANGED appVars
  /\ UNCHANGED prefVars
  /\ UNCHANGED <<consumer, collection, hookMounted, storage, favorites,
                 favoritesSeen, history, historySeen, now, favAdded>>

CallAddFavoriteVideo(video) ==
  /\ collection = "favorites"
  /\ ServiceCall("addFavoriteVideo", "getFavoriteVideos", video.id)

CallRemoveFavoriteVideo(videoId) ==
  /\ collection = "favorites"
  /\ ServiceCall("removeFavoriteVideo", "getFavoriteVideos", videoId)

CallAddToWatchHistory(video) ==
  /\ collection = "history"
  /\ ServiceCall("addToWatchHistory", "getWatchHistory", video.id)

(* clearWatchHistory writes without reading.                               *)
CallClearWatchHistory ==
  /\ consumer = Service
  /\ collection = "history"
  /\ MakeCall
  /\ queue' = Append(queue,
       Op(calls + 1, "clearWatchHistory", "clearWatchHistory", "setItem",
          JSON_stringify(<< >>), 0))
  /\ storeEvent' = StoreEvent("call", calls + 1, "clearWatchHistory",
                              "clearWatchHistory", 0, "pending", TRUE, 0)
  /\ UNCHANGED feedVars
  /\ UNCHANGED appVars
  /\ UNCHANGED prefVars
  /\ UNCHANGED <<consumer, collection, hookMounted, storage, favorites,
                 favoritesSeen, history, historySeen, now, favAdded>>

(* getFavoriteVideos / getWatchHistory: the parsed document, [] when the   *)
(* key is absent or when getItem or JSON.parse threw.                      *)
getFavoriteVideos(ok) ==
  IF ok /\ Readable(storage[FAVORITE_VIDEOS])
  THEN ParseOrEmpty(storage[FAVORITE_VIDEOS])
  ELSE << >>

getWatchHistory_rethrows(ok) ==
  IF ok /\ Readable(storage[WATCH_HISTORY])
  THEN ParseOrEmpty(storage[WATCH_HISTORY])
  ELSE <<"Error loading watch history:">>

getWatchHistory(ok) ==
  IF ok /\ Readable(storage[WATCH_HISTORY])
  THEN ParseOrEmpty(storage[WATCH_HISTORY])
  ELSE << >>

(* The list the getter hands to its caller; the write the caller goes on   *)
(* to queue keeps it as "base".                                            *)
ServiceRead(op, ok) ==
  IF op.api = "addToWatchHistory" THEN getWatchHistory(ok)
  ELSE getFavoriteVideos(ok)

(* The text the caller of the getter goes on to write, Null when it        *)
(* returns without writing (addFavoriteVideo of a listed id).              *)
ServiceText(op, ok, t) ==
  IF op.api = "addFavoriteVideo"
  THEN IF ~Some(getFavoriteVideos(ok), op.arg)
       THEN JSON_stringify(updatedFavorites([id |-> op.arg],
                                            getFavoriteVideos(ok)))
       ELSE Null
  ELSE IF op.api = "removeFavoriteVideo"
  THEN JSON_stringify(Without(getFavoriteVideos(ok), op.arg))
  ELSE JSON_stringify(HistoryWith([id |-> op.arg], t, getWatchHistory(ok)))

(* getItem of a service call answered (or threw): the rest of the caller   *)
(* up to its setItem or its return.                                        *)
ServiceReadDone(ok) ==
  /\ consumer = Service
  /\ queue # << >>
  /\ Head(queue).kind = "getItem"
  /\ \E t \in IF Head(queue).api = "addToWatchHistory" THEN Clock ELSE {0} :
       LET op == Head(queue)
           text == ServiceText(op, ok, t)
       IN /\ now' = IF op.api = "addToWatchHistory" THEN t ELSE now
          /\ queue' = IF text = Null THEN Tail(queue)
                      ELSE Append(Tail(queue),
                             ("base" :> ServiceRead(op, ok)) @@
                             Op(op.call, op.api, op.api, "setItem", text,
                                op.arg))
          /\ storeEvent' = StoreEvent(IF text = Null THEN "return" ELSE "read",
               op.call, op.api, op.via, op.arg,
               IF text = Null THEN "undefined" ELSE "pending", ok, t)
  /\ UNCHANGED feedVars
  /\ UNCHANGED appVars
  /\ UNCHANGED prefVars
  /\ UNCHANGED <<consumer, collection, hookMounted, storage, favorites,
                 favoritesSeen, history, historySeen, calls, orderly,
                 favAdded>>

(* setItem of a service call answered: the text is stored, or the write    *)
(* threw and was logged.                                                   *)
ServiceWriteDone(ok) ==
  /\ consumer = Service
  /\ queue # << >>
  /\ Head(queue).kind = "setItem"
  /\ LET op == Head(queue) IN
       /\ queue' = Tail(queue)
       /\ storage' = IF ok THEN setItem(storage, Key, op.text) ELSE storage
       /\ favAdded' = IF ok /\ op.api = "addFavoriteVideo"
                      THEN NoteAdded(ParseOrEmpty(storage[Key]), op.arg, op.call)
                      ELSE favAdded
       /\ storeEvent' = StoreEvent("return", op.call, op.api, op.via, op.arg,
                                   ServiceResult(ok), ok, 0)
  /\ UNCHANGED feedVars
  /\ UNCHANGED appVars
  /\ UNCHANGED prefVars
  /\ UNCHANGED <<consumer, collection, hookMounted, favorites, favoritesSeen,
                 history, historySeen, now, calls, orderly>>

----------------------------------------------------------------------------
(* Recent searches and app settings: useRecentSearches and useAppSettings  *)
(* of frontend/hooks/useStorage.js, the search screen and the settings     *)
(* screen with services/storage.                                           *)

SearchScreen == "app/(tabs)/search"
SettingsScreen == "app/(tabs)/settings"
Screens == {SearchScreen, SettingsScreen}

PrefUses == {<<HookA, "searches">>, <<SearchScreen, "searches">>,
             <<HookA, "settings">>, <<SettingsScreen, "settings">>}

(* A search term is a sequence of characters; Space is the blank, every    *)
(* other number a letter.                                                  *)
Space == 0

RECURSIVE trimStart(_)
trimStart(term) ==
  IF term # << >> /\ Head(term) = Space THEN trimStart(Tail(term)) ELSE term

RECURSIVE trimEnd(_)
trimEnd(term) ==
  IF term # << >> /\ term[Len(term)] = Space
  THEN trimEnd(SubSeq(term, 1, Len(term) - 1))
  ELSE term

(* String.prototype.trim                                                   *)
trim(term) == trimEnd(trimStart(term))

(* list.includes(term), list.filter(t => t !== term)                       *)
includes(list, term) == \E i \in DOMAIN list : list[i] = term
WithoutTerm(list, term) == SelectSeq(list, LAMBDA t : t # term)

(* A list of recent searches written earlier: n one-letter terms.          *)
SeededSearches(n) == [i \in 1..n |-> <<i>>]

SearchSeedLens ==
  IF consumer = SearchScreen
  THEN {0, SCREEN_RECENT_LIMIT - 1, SCREEN_RECENT_LIMIT}
  ELSE {0, RECENT_LIMIT - 1, RECENT_LIMIT}

(* The terms searched for: empty, blank, a listed term alone and with a    *)
(* blank before or after it, the last term of a full list, new terms.      *)
SearchTerms ==
  {<< >>, <<Space>>, <<1>>, <<Space, 1>>, <<1, Space>>,
   <<SCREEN_RECENT_LIMIT>>, <<RECENT_LIMIT>>}
  \cup {<<RECENT_LIMIT + k>> : k \in 1..MaxFresh}

(* The settings record of useState / getDefaultSettings.                   *)
DefaultSettings ==
  [autoplay |-> TRUE, darkMode |-> FALSE, downloadQuality |-> "medium",
   pushNotifications |-> TRUE]

(* A settings record saved earlier.                                        *)
SavedSettings ==
  [autoplay |-> FALSE, darkMode |-> TRUE, downloadQuality |-> "high",
   pushNotifications |-> TRUE]

(* The partial records updateSettings is called with, by number;           *)
(* updateSetting(key, value) of the settings screen takes those with one   *)
(* field.                                                                  *)
Partials ==
  << [darkMode |-> TRUE], [autoplay |-> FALSE], [downloadQuality |-> "low"],
     [darkMode |-> FALSE, pushNotifications |-> FALSE] >>

(* { ...settings, ...newSettings }                                         *)
Merge_resetsOthers(record, partial) ==
  [f \in DOMAIN DefaultSettings |->
     IF f \in DOMAIN partial THEN partial[f] ELSE DefaultSettings[f]]

Merge(record, partial) ==
  [f \in DOMAIN record \cup DOMAIN partial |->
     IF f \in DOMAIN partial THEN partial[f] ELSE record[f]]

(* What the recent-search and settings code never touches.                 *)
otherLists == <<favorites, favoritesSeen, history, historySeen, now, favAdded>>

PrefIdle ==
  /\ recentSearches = << >>
  /\ recentSearchesSeen = << >>
  /\ settings = DefaultSettings
  /\ settingsSeen = DefaultSettings
  /\ searching = {}

InitPrefs ==
  /\ \E use \in PrefUses : consumer = use[1] /\ collection = use[2]
  /\ hookMounted = FALSE
  /\ \E text \in IF collection = "searches"
                 THEN {Null} \cup
                      {JSON_stringify(SeededSearches(n)) : n \in SearchSeedLens}
                 ELSE {Null, JSON_stringify(DefaultSettings),
                       JSON_stringify(SavedSettings)} :
       storage = [k \in STORAGE_KEYS |-> IF k = Key THEN text ELSE Null]
  /\ queue = << >>
  /\ favorites = << >>
  /\ favoritesSeen = << >>
  /\ history = << >>
  /\ historySeen = << >>
  /\ now = 1
  /\ calls = 0
  /\ storeEvent = NoStoreEvent
  /\ orderly = TRUE
  /\ favAdded = [i \in {NoId} \cup VideoIds |-> 0]
  /\ PrefIdle

(* getRecentSearches / getAppSettings of services/storage: the parsed      *)
(* document; [] or the default settings when the key is absent or the read *)
(* threw.                                                                  *)
getRecentSearches(ok) ==
  IF ok /\ Readable(storage[RECENT_SEARCHES])
  THEN ParseOrEmpty(storage[RECENT_SEARCHES])
  ELSE << >>

getAppSettings(ok) ==
  IF ok /\ Readable(storage[APP_SETTINGS]) /\ storage[APP_SETTINGS] # Null
  THEN JSON_parse(storage[APP_SETTINGS])
  ELSE DefaultSettings

(* The load effect of the search screen (getRecentSearches) and            *)
(* loadSettings of the settings screen (getAppSettings) up to the await of *)
(* getItem.                                                                *)
ScreenMount ==
  /\ consumer \in Screens
  /\ ~hookMounted
  /\ hookMounted' = TRUE
  /\ queue' = Append(queue, Op(0, "load", "load", "getItem", Null, 0))
  /\ storeEvent' = StoreEvent("mount", 0, "load", "load", 0, "pending", TRUE, 0)
  /\ UNCHANGED feedVars
  /\ UNCHANGED appVars
  /\ UNCHANGED prefVars
  /\ UNCHANGED otherLists
  /\ UNCHANGED <<consumer, collection, storage, calls, orderly>>

(* getItem of a load answered.  The hooks set the parsed document (the     *)
(* settings only when the key is present) and on a failed read only their  *)
(* error; the screens set what the getter returns.                         *)
PrefLoadDone(ok) ==
  /\ consumer \in {HookA} \cup Screens
  /\ collection \in {"searches", "settings"}
  /\ queue # << >>
  /\ Head(queue).api = "load"
  /\ queue' = Tail(queue)
  /\ recentSearches' =
       IF collection # "searches" THEN recentSearches
       ELSE IF consumer = SearchScreen THEN getRecentSearches(ok)
       ELSE IF ok /\ Readable(storage[RECENT_SEARCHES])
            THEN ParseOrEmpty(storage[RECENT_SEARCHES])
       ELSE recentSearches
  /\ settings' =
       IF collection # "settings" THEN settings
       ELSE IF consumer = SettingsScreen THEN getAppSettings(ok)
       ELSE IF ok /\ Readable(storage[APP_SETTINGS])
               /\ storage[APP_SETTINGS] # Null
            THEN JSON_parse(storage[APP_SETTINGS])
       ELSE settings
  /\ storeEvent' = StoreEvent("load", 0, "load", "load", 0, "none", ok, 0)
  /\ UNCHANGED feedVars
  /\ UNCHANGED appVars
  /\ UNCHANGED otherLists
  /\ UNCHANGED <<consumer, collection, hookMounted, storage, calls, orderly>>
  /\ UNCHANGED <<recentSearchesSeen, settingsSeen, searching>>

(* React re-renders the hook's component or the screen.                    *)
PrefRender ==
  /\ collection \in {"searches", "settings"}
  /\ <<recentSearchesSeen, settingsSeen>> # <<recentSearches, settings>>
  /\ recentSearchesSeen' = recentSearches
  /\ settingsSeen' = settings
  /\ storeEvent' = StoreEvent("render", 0, "none", "none", 0, "none", TRUE, 0)
  /\ UNCHANGED feedVars
  /\ UNCHANGED appVars
  /\ UNCHANGED otherLists
  /\ UNCHANGED <<consumer, collection, hookMounted, storage, queue, calls,
                 orderly>>
  /\ UNCHANGED <<recentSearches, settings, searching>>

(* [searchTerm, ...filteredSearches].slice(0, 10) of the hook,             *)
(* [searchQuery, ...recentSearches].slice(0, 5) of the search screen.      *)
updatedSearches_uncapped(term, list, cap) == <<term>> \o list

updatedSearches(term, list, cap) ==
  SubSeq(<<term>> \o list, 1, Min(Len(list) + 1, cap))

(* useRecentSearches.addRecentSearch up to its return or its await.        *)
addRecentSearch(searchTerm) ==
  IF trim(searchTerm) = << >>
  THEN /\ storeEvent' = StoreEvent("return", calls + 1, "addRecentSearch",
                                   "addRecentSearch", searchTerm, "undefined",
                                   TRUE, 0)
       /\ UNCHANGED <<recentSearches, queue>>
  ELSE LET filteredSearches == WithoutTerm(recentSearchesSeen, searchTerm)
           updated == updatedSearches(searchTerm, filteredSearches,
                                      RECENT_LIMIT)
       IN /\ recentSearches' = updated
          /\ queue' = Append(queue,
               Op(calls + 1, "addRecentSearch", "addRecentSearch", "setItem",
                  JSON_stringify(updated), searchTerm))
          /\ storeEvent' = StoreEvent("call", calls + 1, "addRecentSearch",
                                      "addRecentSearch", searchTerm, "pending",
                                      TRUE, 0)

CallAddRecentSearch(searchTerm) ==
  /\ consumer = HookA /\ collection = "searches" /\ hookMounted
  /\ MakeCall
  /\ addRecentSearch(searchTerm)
  /\ UNCHANGED feedVars
  /\ UNCHANGED appVars
  /\ UNCHANGED otherLists
  /\ UNCHANGED <<consumer, collection, hookMounted, storage>>
  /\ UNCHANGED <<recentSearchesSeen, settings, settingsSeen, searching>>

(* useRecentSearches.clearRecentSearches up to its await: the write comes  *)
(* first, setRecentSearches([]) after it.                                  *)
CallClearRecentSearches ==
  /\ consumer = HookA /\ collection = "searches" /\ hookMounted
  /\ MakeCall
  /\ queue' = Append(queue,
       Op(calls + 1, "clearRecentSearches", "clearRecentSearches", "setItem",
          JSON_stringify(<< >>), << >>))
  /\ storeEvent' = StoreEvent("call", calls + 1, "clearRecentSearches",
                              "clearRecentSearches", << >>, "pending", TRUE,
                              0)
  /\ UNCHANGED feedVars
  /\ UNCHANGED appVars
  /\ UNCHANGED otherLists
  /\ UNCHANGED prefVars
  /\ UNCHANGED <<consumer, collection, hookMounted, storage>>

(* useAppSettings.updateSettings up to its await.                          *)
updateSettings(p) ==
  LET newSettings == Partials[p]
      updatedSettings == Merge(settingsSeen, newSettings)
  IN
    /\ settings' = updatedSettings
    /\ queue' = Append(queue,
         Op(calls + 1, "updateSettings", "updateSettings", "setItem",
            JSON_stringify(updatedSettings), p))
    /\ storeEvent' = StoreEvent("call", calls + 1, "updateSettings",
                                "updateSettings", p, "pending", TRUE, 0)

CallUpdateSettings(p) ==
  /\ consumer = HookA /\ collection = "settings" /\ hookMounted
  /\ MakeCall
  /\ updateSettings(p)
  /\ UNCHANGED feedVars
  /\ UNCHANGED appVars
  /\ UNCHANGED otherLists
  /\ UNCHANGED <<consumer, collection, hookMounted, storage>>
  /\ UNCHANGED <<recentSearches, recentSearchesSeen, settingsSeen, searching>>

(* useAppSettings.resetSettings up to its await.                           *)
CallResetSettings ==
  /\ consumer = HookA /\ collection = "settings" /\ hookMounted
  /\ MakeCall
  /\ settings' = DefaultSettings
  /\ queue' = Append(queue,
       Op(calls + 1, "resetSettings", "resetSettings", "setItem",
          JSON_stringify(DefaultSettings), 0))
  /\ storeEvent' = StoreEvent("call", calls + 1, "resetSettings",
                              "resetSettings", 0, "pending", TRUE, 0)
  /\ UNCHANGED feedVars
  /\ UNCHANGED appVars
  /\ UNCHANGED otherLists
  /\ UNCHANGED <<consumer, collection, hookMounted, storage>>
  /\ UNCHANGED <<recentSearches, recentSearchesSeen, settingsSeen, searching>>

(* setItem of a call of useRecentSearches / useAppSettings answered.       *)
PrefWriteDone(ok) ==
  /\ consumer = HookA /\ collection \in {"searches", "settings"}
  /\ queue # << >>
  /\ Head(queue).kind = "setItem"
  /\ LET op == Head(queue) IN
       /\ queue' = Tail(queue)
       /\ storage' = IF ok THEN setItem(storage, Key, op.text) ELSE storage
       /\ recentSearches' = IF ok /\ op.via = "clearRecentSearches"
                            THEN << >> ELSE recentSearches
       /\ storeEvent' = StoreEvent("return", op.call, op.api, op.via, op.arg,
                                   HookResult(ok), ok, 0)
  /\ UNCHANGED feedVars
  /\ UNCHANGED appVars
  /\ UNCHANGED otherLists
  /\ UNCHANGED <<consumer, collection, hookMounted, calls, orderly>>
  /\ UNCHANGED <<recentSearchesSeen, settings, settingsSeen, searching>>

(* handleSearch of the search screen up to the await of fetchVideos: the   *)
(* continuation keeps the query and the recentSearches of the render the   *)
(* function belongs to.                                                    *)
handleSearch(searchQuery, seen) ==
  IF trim(searchQuery) = << >>
  THEN /\ storeEvent' = StoreEvent("return", calls + 1, "handleSearch",
                                   "handleSearch", searchQuery, "undefined",
                                   TRUE, 0)
       /\ UNCHANGED <<searching, searchPerformed>>
  ELSE /\ searching' = searching \cup
            {[call |-> calls + 1, query |-> searchQuery, seen |-> seen]}
       /\ searchPerformed' = TRUE
       /\ storeEvent' = StoreEvent("call", calls + 1, "handleSearch",
                                   "fetchVideos", searchQuery, "pending",
                                   TRUE, 0)

(* The user has typed searchQuery (onChangeText) and submits it.           *)
CallHandleSearch(searchQuery) ==
  /\ consumer = SearchScreen /\ hookMounted
  /\ MakeCall
  /\ searchQueryState' = searchQuery
  /\ handleSearch(searchQuery, recentSearchesSeen)
  /\ UNCHANGED feedVars
  /\ UNCHANGED <<initPc, detailVars, playerVars, tapTimers>>
  /\ UNCHANGED otherLists
  /\ UNCHANGED <<consumer, collection, hookMounted, storage, queue>>
  /\ UNCHANGED <<recentSearches, recentSearchesSeen, settings, settingsSeen>>

(* The recent searches are listed while no search is loading and none has  *)
(* been performed.                                                         *)
recentSearchesShown == searching = {} /\ ~searchPerformed

(* clearSearch: the input is emptied and the results are dropped.          *)
clearSearch ==
  /\ consumer = SearchScreen /\ hookMounted
  /\ searchQueryState # << >>
  /\ searchQueryState' = << >>
  /\ searchPerformed' = FALSE
  /\ storeEvent' = StoreEvent("render", 0, "none", "none", 0, "none", TRUE, 0)
  /\ UNCHANGED feedVars
  /\ UNCHANGED <<initPc, detailVars, playerVars, tapTimers>>
  /\ UNCHANGED otherLists
  /\ UNCHANGED prefVars
  /\ UNCHANGED <<consumer, collection, hookMounted, storage, queue, calls,
                 orderly>>

(* handleRecentSearchTap(query): setSearchQuery(query) and a timer whose   *)
(* callback calls the handleSearch of the render in which the item was     *)
(* tapped.                                                                 *)
handleRecentSearchTap(i) ==
  /\ consumer = SearchScreen /\ hookMounted
  /\ recentSearchesShown
  /\ i \in DOMAIN recentSearchesSeen
  /\ calls + Len(tapTimers) < CallLimit
  /\ searchQueryState' = recentSearchesSeen[i]
  /\ tapTimers' = Append(tapTimers,
                         [query |-> recentSearchesSeen[i],
                          searchQuery |-> searchQueryState,
                          recentSearches |-> recentSearchesSeen])
  /\ storeEvent' = StoreEvent("tap", 0, "handleRecentSearchTap", "setTimeout",
                              recentSearchesSeen[i], "pending", TRUE, 0)
  /\ UNCHANGED feedVars
  /\ UNCHANGED <<initPc, detailVars, playerVars, searchPerformed>>
  /\ UNCHANGED otherLists
  /\ UNCHANGED prefVars
  /\ UNCHANGED <<consumer, collection, hookMounted, storage, queue, calls,
                 orderly>>

(* The timer of handleRecentSearchTap runs handleSearch().                 *)
TapTimerFires ==
  /\ consumer = SearchScreen
  /\ tapTimers # << >>
  /\ tapTimers' = Tail(tapTimers)
  /\ MakeCall
  /\ handleSearch(Head(tapTimers).searchQuery, Head(tapTimers).recentSearches)
  /\ UNCHANGED feedVars
  /\ UNCHANGED <<initPc, detailVars, playerVars, searchQueryState>>
  /\ UNCHANGED otherLists
  /\ UNCHANGED <<consumer, collection, hookMounted, storage, queue>>
  /\ UNCHANGED <<recentSearches, recentSearchesSeen, settings, settingsSeen>>

(* fetchVideos answered: on success a query the list of that render does   *)
(* not include is put first, the list is cut to five and handed to         *)
(* saveRecentSearches, which is not awaited; on failure the list stays.    *)
SearchDone(s, ok) ==
  /\ consumer = SearchScreen
  /\ s \in searching
  /\ searching' = searching \ {s}
  /\ IF ok /\ ~includes(s.seen, s.query)
     THEN LET updated == updatedSearches(s.query, s.seen, SCREEN_RECENT_LIMIT)
          IN /\ recentSearches' = updated
             /\ queue' = Append(queue,
                  Op(s.call, "handleSearch", "saveRecentSearches", "setItem",
                     JSON_stringify(updated), s.query))
     ELSE UNCHANGED <<recentSearches, queue>>
  /\ storeEvent' = StoreEvent("searched", s.call, "handleSearch",
                              "fetchVideos", s.query, "undefined", ok, 0)
  /\ UNCHANGED feedVars
  /\ UNCHANGED appVars
  /\ UNCHANGED otherLists
  /\ UNCHANGED <<consumer, collection, hookMounted, storage, calls, orderly>>
  /\ UNCHANGED <<recentSearchesSeen, settings, settingsSeen>>

(* updateSetting(key, value) of the settings screen up to the await of     *)
(* saveAppSettings: { ...settings, [key]: value } over the settings of     *)
(* this render.                                                            *)
CallUpdateSetting(p) ==
  /\ consumer = SettingsScreen /\ hookMounted
  /\ Cardinality(DOMAIN Partials[p]) = 1
  /\ MakeCall
  /\ LET updatedSettings == Merge(settingsSeen, Partials[p]) IN
       /\ settings' = updatedSettings
       /\ queue' = Append(queue,
            Op(calls + 1, "updateSetting", "saveAppSettings", "setItem",
               JSON_stringify(updatedSettings), p))
  /\ storeEvent' = StoreEvent("call", calls + 1, "updateSetting",
                              "saveAppSettings", p, "pending", TRUE, 0)
  /\ UNCHANGED feedVars
  /\ UNCHANGED appVars
  /\ UNCHANGED otherLists
  /\ UNCHANGED <<consumer, collection, hookMounted, storage>>
  /\ UNCHANGED <<recentSearches, recentSearchesSeen, settingsSeen, searching>>

(* setItem of saveRecentSearches / saveAppSettings answered: the text is   *)
(* stored, or the write threw and was logged; either way the function      *)
(* returns undefined.                                                      *)
ScreenWriteDone(ok) ==
  /\ consumer \in Screens
  /\ queue # << >>
  /\ Head(queue).kind = "setItem"
  /\ LET op == Head(queue) IN
       /\ queue' = Tail(queue)
       /\ storage' = IF ok THEN setItem(storage, Key, op.text) ELSE storage
       /\ storeEvent' = StoreEvent("return", op.call, op.api, op.via, op.arg,
                                   ServiceResult(ok), ok, 0)
  /\ UNCHANGED feedVars
  /\ UNCHANGED appVars
  /\ UNCHANGED otherLists
  /\ UNCHANGED prefVars
  /\ UNCHANGED <<consumer, collection, hookMounted, calls, orderly>>

PrefsNext ==
  \/ HookMount
  \/ ScreenMount
  \/ \E ok \in BOOLEAN : PrefLoadDone(ok)
  \/ PrefRender
  \/ \E searchTerm \in SearchTerms : CallAddRecentSearch(searchTerm)
  \/ CallClearRecentSearches
  \/ \E p \in DOMAIN Partials : CallUpdateSettings(p)
  \/ CallResetSettings
  \/ \E ok \in BOOLEAN : PrefWriteDone(ok)
  \/ \E searchQuery \in SearchTerms : CallHandleSearch(searchQuery)
  \/ \E s \in searching, ok \in BOOLEAN : SearchDone(s, ok)
  \/ \E p \in DOMAIN Partials : CallUpdateSetting(p)
  \/ \E ok \in BOOLEAN : ScreenWriteDone(ok)

----------------------------------------------------------------------------

(* Reading the four documents: the load effects of the hooks and screens   *)
(* above, and the getters of services/storage called on their own.         *)

ReadUses ==
  Uses \cup PrefUses \cup {<<Service, "searches">>, <<Service, "settings">>}

(* What a read finds under the key: nothing, a text that does not parse,   *)
(* or a document written earlier.                                          *)
Documents ==
  {Null, Corrupt} \cup
  (IF collection = "favorites"
   THEN {JSON_stringify(<< >>), JSON_stringify(<<[id |-> 1]>>)}
   ELSE IF collection = "history"
   THEN {JSON_stringify(SeededHistory(n)) : n \in SeedLens}
   ELSE IF collection = "searches"
   THEN {JSON_stringify(SeededSearches(n)) : n \in SearchSeedLens}
   ELSE {JSON_stringify(DefaultSettings), JSON_stringify(SavedSettings)})

InitRead ==
  /\ \E use \in ReadUses : consumer = use[1] /\ collection = use[2]
  /\ hookMounted = FALSE
  /\ \E text \in Documents :
       storage = [k \in STORAGE_KEYS |-> IF k = Key THEN text ELSE Null]
  /\ queue = << >>
  /\ favorites = << >>
  /\ favoritesSeen = << >>
  /\ history = << >>
  /\ historySeen = << >>
  /\ now = 1
  /\ calls = 0
  /\ storeEvent = NoStoreEvent
  /\ orderly = TRUE
  /\ favAdded = [i \in {NoId} \cup VideoIds |-> 0]
  /\ PrefIdle

(* The getter of the collection and the value it resolves to.              *)
Getter ==
  IF collection = "favorites" THEN "getFavoriteVideos"
  ELSE IF collection = "history" THEN "getWatchHistory"
  ELSE IF collection = "searches" THEN "getRecentSearches"
  ELSE "getAppSettings"

Get(ok) ==
  IF collection = "favorites" THEN getFavoriteVideos(ok)
  ELSE IF collection = "history" THEN getWatchHistory(ok)
  ELSE IF collection = "searches" THEN getRecentSearches(ok)
  ELSE getAppSettings(ok)

(* A getter of services/storage up to its await of getItem.                *)
CallGet ==
  /\ consumer = Service
  /\ calls < MaxReads
  /\ MakeCall
  /\ queue' = Append(queue, Op(calls + 1, Getter, Getter, "getItem", Null, 0))
  /\ storeEvent' = StoreEvent("call", calls + 1, Getter, Getter, 0, "pending",
                              TRUE, 0)
  /\ UNCHANGED feedVars
  /\ UNCHANGED appVars
  /\ UNCHANGED prefVars
  /\ UNCHANGED otherLists
  /\ UNCHANGED <<consumer, collection, hookMounted, storage>>

(* getItem answered or threw: the getter returns the parsed document, or   *)
(* [] / the default settings from its ternary or its catch block.          *)
GetDone(ok) ==
  /\ consumer = Service
  /\ queue # << >>
  /\ Head(queue).kind = "getItem"
  /\ Head(queue).api = Getter
  /\ queue' = Tail(queue)
  /\ storeEvent' = StoreEvent("return", Head(queue).call, Getter, Getter, 0,
                              Get(ok), ok, 0)
  /\ UNCHANGED feedVars
  /\ UNCHANGED appVars
  /\ UNCHANGED prefVars
  /\ UNCHANGED otherLists
  /\ UNCHANGED <<consumer, collection, hookMounted, storage, calls, orderly>>

ReadNext ==
  \/ HookMount
  \/ ScreenMount
  \/ \E ok \in BOOLEAN : LoadDone(ok)
  \/ \E ok \in BOOLEAN : PrefLoadDone(ok)
  \/ Render
  \/ PrefRender
  \/ CallGet
  \/ \E ok \in BOOLEAN : GetDone(ok)

----------------------------------------------------------------------------

(* AppLayout: the mount effect runs initializeApp, which for each of three *)
(* keys awaits getItem and, when that answered null, awaits setItem of the *)
(* empty list; any rejection ends it in its catch block.  Its requests go  *)
(* through the same AsyncStorage as those of the collection functions.     *)

InitKeys == <<RECENT_SEARCHES, FAVORITE_VIDEOS, WATCH_HISTORY>>

InitOp(kind, k) ==
  Op(0, "initializeApp", "initializeApp", kind,
     IF kind = "setItem" THEN JSON_stringify(<< >>) ELSE Null, k)

IsInitOp(op) == op.api = "initializeApp"

(* What initializeApp does once key k is dealt with: the getItem of the    *)
(* next key, or nothing more.                                              *)
InitContinue(k, rest) ==
  /\ queue' = IF k < Len(InitKeys) THEN Append(rest, InitOp("getItem", k + 1))
              ELSE rest
  /\ initPc' = IF k < Len(InitKeys) THEN "running" ELSE "done"

AppMount ==
  /\ initPc = "idle"
  /\ initPc' = "running"
  /\ queue' = Append(queue, InitOp("getItem", 1))
  /\ storeEvent' = StoreEvent("mount", 0, "initializeApp", "initializeApp", 1,
                              "pending", TRUE, 0)
  /\ UNCHANGED feedVars
  /\ UNCHANGED prefVars
  /\ UNCHANGED detailVars
  /\ UNCHANGED <<playerVars, tapVars>>
  /\ UNCHANGED otherLists
  /\ UNCHANGED <<consumer, collection, hookMounted, storage, calls, orderly>>

(* getItem of initializeApp answered: null queues the write of [], a text  *)
(* moves on to the next key, a rejection ends in the catch block.          *)
InitCheckDone(ok) ==
  /\ queue # << >>
  /\ IsInitOp(Head(queue)) /\ Head(queue).kind = "getItem"
  /\ LET k == Head(queue).arg IN
       /\ IF ~ok
          THEN queue' = Tail(queue) /\ initPc' = "done"
          ELSE IF storage[InitKeys[k]] = Null
          THEN /\ queue' = Append(Tail(queue), InitOp("setItem", k))
               /\ initPc' = initPc
          ELSE InitContinue(k, Tail(queue))
       /\ storeEvent' = StoreEvent("read", 0, "initializeApp", "initializeApp",
                                   k, "pending", ok, 0)
  /\ UNCHANGED feedVars
  /\ UNCHANGED prefVars
  /\ UNCHANGED detailVars
  /\ UNCHANGED <<playerVars, tapVars>>
  /\ UNCHANGED otherLists
  /\ UNCHANGED <<consumer, collection, hookMounted, storage, calls, orderly>>

(* setItem of initializeApp answered.                                      *)
InitWriteDone(ok) ==
  /\ queue # << >>
  /\ IsInitOp(Head(queue)) /\ Head(queue).kind = "setItem"
  /\ LET op == Head(queue) IN
       /\ storage' = IF ok THEN setItem(storage, InitKeys[op.arg], op.text)
                     ELSE storage
       /\ IF ok THEN InitContinue(op.arg, Tail(queue))
          ELSE queue' = Tail(queue) /\ initPc' = "done"
       /\ storeEvent' = StoreEvent("write", 0, "initializeApp",
                                   "initializeApp", op.arg, "pending", ok, 0)
  /\ UNCHANGED feedVars
  /\ UNCHANGED prefVars
  /\ UNCHANGED detailVars
  /\ UNCHANGED <<playerVars, tapVars>>
  /\ UNCHANGED otherLists
  /\ UNCHANGED <<consumer, collection, hookMounted, calls, orderly>>

(* The functions of services/storage running next to initializeApp: each   *)
(* answers its own request.                                                *)
MutationReadDone(ok) ==
  /\ queue # << >> /\ ~IsInitOp(Head(queue))
  /\ ServiceReadDone(ok)
  /\ initPc' = initPc

MutationWriteDone(ok) ==
  /\ queue # << >> /\ ~IsInitOp(Head(queue))
  /\ ServiceWriteDone(ok)
  /\ initPc' = initPc

StartNext ==
  \/ AppMount
  \/ \E ok \in BOOLEAN : InitCheckDone(ok)
  \/ \E ok \in BOOLEAN : InitWriteDone(ok)
  \/ \E video \in Videos : CallAddFavoriteVideo(video)
  \/ \E videoId \in VideoIds : CallRemoveFavoriteVideo(videoId)
  \/ \E video \in HistoryVideos : CallAddToWatchHistory(video)
  \/ CallClearWatchHistory
  \/ \E ok \in BOOLEAN : MutationReadDone(ok)
  \/ \E ok \in BOOLEAN : MutationWriteDone(ok)

----------------------------------------------------------------------------

(* VideoDetailScreen of app/video/[id].js with fetchVideoById of           *)
(* services/api.js and the functions of services/storage.                  *)

DetailScreen == "app/video/[id]"

(* The ids GET /videos/{id} answers with a video; any other id is absent.  *)
DetailCatalog == {1}

(* What fetch() does: a response with a status, or a rejection.            *)
Transport == "Network request failed"
Responses(videoId) ==
  (IF videoId \in DetailCatalog THEN {"200"} ELSE {"404"})
    \cup {"500", Transport}

response_ok(response) == response = "200"

(* fetchVideoById: the parsed body of an ok response; any other status     *)
(* throws new Error(`API error: ${response.status}`), a rejected fetch     *)
(* throws what fetch threw; the catch block logs and rethrows.             *)
fetchVideoById(videoId, response) ==
  IF response = Transport
  THEN [threw |-> TRUE, name |-> "TypeError", message |-> <<Transport>>,
        data |-> << >>]
  ELSE IF ~response_ok(response)
  THEN [threw |-> TRUE, name |-> "Error",
        message |-> <<"API error: ", response>>, data |-> << >>]
  ELSE [threw |-> FALSE, name |-> "none", message |-> << >>,
        data |-> <<[id |-> videoId]>>]

(* What the screen renders.                                                *)
detailView ==
  IF detailLoading THEN "LoadingIndicator"
  ELSE IF detailError # << >> \/ detailVideo = << >> THEN "ErrorMessage"
  ELSE IF ~showDetails THEN "FullscreenFeed"
  ELSE "Details"

detailMessage ==
  IF detailError # << >> THEN detailError ELSE <<"Video not found">>

KeyOf(api) ==
  IF api = "addToWatchHistory" THEN WATCH_HISTORY ELSE FAVORITE_VIDEOS

ToggleApis == {"addFavoriteVideo", "removeFavoriteVideo"}

(* The documents the screen can find: favorites absent, empty, or holding  *)
(* one video.                                                              *)
InitDetail ==
  /\ consumer = DetailScreen
  /\ collection = "favorites"
  /\ hookMounted = FALSE
  /\ \E text \in {Null, JSON_stringify(<< >>)}
                 \cup {JSON_stringify(<<[id |-> i]>>) : i \in VideoIds} :
       storage = [k \in STORAGE_KEYS |->
                    IF k = FAVORITE_VIDEOS THEN text ELSE Null]
  /\ queue = << >>
  /\ favorites = << >>
  /\ favoritesSeen = << >>
  /\ history = << >>
  /\ historySeen = << >>
  /\ now = 1
  /\ calls = 0
  /\ storeEvent = NoStoreEvent
  /\ orderly = TRUE
  /\ favAdded = [i \in {NoId} \cup VideoIds |-> 0]

(* The screen mounts with an id: the effect runs loadVideo up to the await *)
(* of fetchVideoById.                                                      *)
OpenDetail(id) ==
  /\ consumer = DetailScreen
  /\ detailPc = "closed"
  /\ detailPc' = "fetching"
  /\ detailId' = id
  /\ detailLoading' = TRUE
  /\ storeEvent' = StoreEvent("mount", 0, "fetchVideoById", "loadVideo", id,
                              "pending", TRUE, 0)
  /\ UNCHANGED feedVars
  /\ UNCHANGED prefVars
  /\ UNCHANGED otherLists
  /\ UNCHANGED <<playerVars, tapVars>>
  /\ UNCHANGED <<initPc, detailVideo, detailError, showDetails,
                 detailIsFavorite, detailToggles>>
  /\ UNCHANGED <<consumer, collection, hookMounted, storage, queue, calls,
                 orderly>>

(* fetchVideoById settled.  Resolved: setVideo, addToWatchHistory (not     *)
(* awaited) and isVideoFavorited up to their getItem.  Thrown: setError    *)
(* and, in the finally block, setLoading(false).                           *)
FetchVideoDone(response) ==
  /\ detailPc = "fetching"
  /\ response \in Responses(detailId)
  /\ LET outcome == fetchVideoById(detailId, response) IN
       IF outcome.threw
       THEN /\ detailError' = <<"Failed to load video: ">> \o outcome.message
            /\ detailLoading' = FALSE
            /\ detailPc' = "done"
            /\ UNCHANGED <<detailVideo, queue>>
       ELSE /\ detailVideo' = outcome.data
            /\ queue' = queue \o
                 <<Op(0, "addToWatchHistory", "getWatchHistory", "getItem",
                      Null, detailId),
                   Op(0, "isVideoFavorited", "getFavoriteVideos", "getItem",
                      Null, detailId)>>
            /\ detailPc' = "checking"
            /\ UNCHANGED <<detailError, detailLoading>>
  /\ storeEvent' = StoreEvent("fetched", 0, "fetchVideoById", "loadVideo",
                              detailId, response, response_ok(response), 0)
  /\ UNCHANGED feedVars
  /\ UNCHANGED prefVars
  /\ UNCHANGED otherLists
  /\ UNCHANGED <<playerVars, tapVars>>
  /\ UNCHANGED <<initPc, detailId, showDetails, detailIsFavorite,
                 detailToggles>>
  /\ UNCHANGED <<consumer, collection, hookMounted, storage, calls, orderly>>

toggleDetails ==
  /\ detailView \in {"FullscreenFeed", "Details"}
  /\ showDetails' = ~showDetails
  /\ storeEvent' = StoreEvent("render", 0, "none", "none", 0, "none", TRUE, 0)
  /\ UNCHANGED feedVars
  /\ UNCHANGED prefVars
  /\ UNCHANGED otherLists
  /\ UNCHANGED <<playerVars, tapVars>>
  /\ UNCHANGED <<initPc, detailPc, detailId, detailVideo, detailLoading,
                 detailError, detailIsFavorite, detailToggles>>
  /\ UNCHANGED <<consumer, collection, hookMounted, storage, queue, calls,
                 orderly>>

(* toggleFavorite up to the getItem its storage function awaits; with      *)
(* isFavorite false and no video it awaits nothing.                        *)
DetailToggleFavorite ==
  /\ detailView = "Details"
  /\ MakeCall
  /\ LET api == IF detailIsFavorite THEN "removeFavoriteVideo"
                ELSE "addFavoriteVideo"
     IN /\ queue' = Append(queue, Op(calls + 1, api, "getFavoriteVideos",
                                     "getItem", Null, detailId))
        /\ storeEvent' = StoreEvent("call", calls + 1, api,
                                    "getFavoriteVideos", detailId, "pending",
                                    TRUE, 0)
  /\ detailToggles' = detailToggles \cup
                        {[call |-> calls + 1, isFavorite |-> detailIsFavorite]}
  /\ UNCHANGED feedVars
  /\ UNCHANGED prefVars
  /\ UNCHANGED otherLists
  /\ UNCHANGED <<playerVars, tapVars>>
  /\ UNCHANGED <<initPc, detailPc, detailId, detailVideo, detailLoading,
                 detailError, showDetails, detailIsFavorite>>
  /\ UNCHANGED <<consumer, collection, hookMounted, storage>>

(* The rest of toggleFavorite once its storage function returned:          *)
(* setIsFavorite(!isFavorite) with the isFavorite it closed over.          *)
ToggleReturns(op) ==
  /\ detailIsFavorite' =
       ~(CHOOSE toggle \in detailToggles : toggle.call = op.call).isFavorite
  /\ detailToggles' = {toggle \in detailToggles : toggle.call # op.call}

(* getItem answered for a function of services/storage the screen called:  *)
(* isVideoFavorited returns to loadVideo, which sets isFavorite and, in    *)
(* the finally block, loading; the others go on to their setItem or        *)
(* return.                                                                 *)
DetailReadDone(ok) ==
  /\ consumer = DetailScreen
  /\ queue # << >>
  /\ Head(queue).kind = "getItem"
  /\ \E t \in IF Head(queue).api = "addToWatchHistory" THEN Clock ELSE {0} :
       LET op == Head(queue)
           text == IF op.api = "isVideoFavorited" THEN Null
                   ELSE ServiceText(op, ok, t)
       IN /\ now' = IF op.api = "addToWatchHistory" THEN t ELSE now
          /\ queue' = IF text = Null THEN Tail(queue)
                      ELSE Append(Tail(queue),
                             ("base" :> ServiceRead(op, ok)) @@
                             Op(op.call, op.api, op.api, "setItem", text,
                                op.arg))
          /\ IF op.api = "isVideoFavorited"
             THEN /\ detailIsFavorite' = Some(getFavoriteVideos(ok), op.arg)
                  /\ detailLoading' = FALSE
                  /\ detailPc' = "done"
                  /\ UNCHANGED detailToggles
             ELSE IF text = Null
             THEN /\ ToggleReturns(op)
                  /\ UNCHANGED <<detailLoading, detailPc>>
             ELSE UNCHANGED <<detailIsFavorite, detailLoading, detailPc,
                              detailToggles>>
          /\ storeEvent' = StoreEvent(IF text = Null THEN "return" ELSE "read",
               op.call, op.api, op.via, op.arg,
               IF text = Null THEN "undefined" ELSE "pending", ok, t)
  /\ UNCHANGED feedVars
  /\ UNCHANGED prefVars
  /\ UNCHANGED <<playerVars, tapVars>>
  /\ UNCHANGED <<initPc, detailId, detailVideo, detailError, showDetails>>
  /\ UNCHANGED <<consumer, collection, hookMounted, storage, favorites,
                 favoritesSeen, history, historySeen, calls, orderly,
                 favAdded>>

(* setItem answered for addToWatchHistory, addFavoriteVideo or             *)
(* removeFavoriteVideo: stored, or thrown, caught and logged; either way   *)
(* the function returns undefined and toggleFavorite goes on.              *)
DetailWriteDone(ok) ==
  /\ consumer = DetailScreen
  /\ queue # << >>
  /\ Head(queue).kind = "setItem"
  /\ LET op == Head(queue) IN
       /\ queue' = Tail(queue)
       /\ storage' = IF ok THEN setItem(storage, KeyOf(op.api), op.text)
                     ELSE storage
       /\ favAdded' = IF ok /\ op.api = "addFavoriteVideo"
                      THEN NoteAdded(ParseOrEmpty(storage[FAVORITE_VIDEOS]),
                                     op.arg, op.call)
                      ELSE favAdded
       /\ IF op.api \in ToggleApis THEN ToggleReturns(op)
          ELSE UNCHANGED <<detailIsFavorite, detailToggles>>
       /\ storeEvent' = StoreEvent("return", op.call, op.api, op.via, op.arg,
                                   ServiceResult(ok), ok, 0)
  /\ UNCHANGED feedVars
  /\ UNCHANGED prefVars
  /\ UNCHANGED <<playerVars, tapVars>>
  /\ UNCHANGED <<initPc, detailPc, detailId, detailVideo, detailLoading,
                 detailError, showDetails>>
  /\ UNCHANGED <<consumer, collection, hookMounted, favorites, favoritesSeen,
                 history, historySeen, now, calls, orderly>>

DetailNext ==
  \/ \E id \in VideoIds : OpenDetail(id)
  \/ \E response \in {"200", "404", "500", Transport} :
       FetchVideoDone(response)
  \/ toggleDetails
  \/ DetailToggleFavorite
  \/ \E ok \in BOOLEAN : DetailReadDone(ok)
  \/ \E ok \in BOOLEAN : DetailWriteDone(ok)

----------------------------------------------------------------------------

(* useWatchHistory and useRecentSearches once their load has been          *)
(* answered, with every setItem succeeding: calls may overlap each other   *)
(* and run ahead of the re-render.                                         *)

LoadAnswered ==
  /\ hookMounted
  /\ \A i \in DOMAIN queue : queue[i].api # "load"

TapNext ==
  \/ ScreenMount
  \/ \E ok \in BOOLEAN : PrefLoadDone(ok)
  \/ PrefRender
  \/ \E searchQuery \in SearchTerms : CallHandleSearch(searchQuery)
  \/ clearSearch
  \/ \E i \in 1..SCREEN_RECENT_LIMIT : handleRecentSearchTap(i)
  \/ TapTimerFires
  \/ \E s \in searching, ok \in BOOLEAN : SearchDone(s, ok)
  \/ \E ok \in BOOLEAN : ScreenWriteDone(ok)

OverlapNext ==
  \/ HookMount
  \/ \E ok \in BOOLEAN : LoadDone(ok)
  \/ \E ok \in BOOLEAN : PrefLoadDone(ok)
  \/ Render
  \/ PrefRender
  \/ LoadAnswered /\ \E video \in HistoryVideos : CallAddToHistory(video)
  \/ LoadAnswered /\ CallClearHistory
  \/ LoadAnswered /\ \E term \in SearchTerms : CallAddRecentSearch(term)
  \/ LoadAnswered /\ CallClearRecentSearches
  \/ HookWriteDone(TRUE)
  \/ PrefWriteDone(TRUE)

----------------------------------------------------------------------------

(* FullscreenVideoPlayer: every mounted player calls useFavoriteVideos of  *)
(* paperbites-frontend/hooks/useStorage, so each has favorites of its own, *)
(* loaded by its own mount effect; player p shows the video with id p.     *)

PlayerComponent == "components/FullscreenVideoPlayer"

Players == VideoIds

PlayerOp(p, c, via, kind, text) ==
  ("inst" :> p) @@ Op(c, "toggleFavorite", via, kind, text, p)

(* The player mounts: loadFavorites up to the await of getItem.            *)
PlayerMount(p) ==
  /\ consumer = PlayerComponent
  /\ ~playerMounted[p]
  /\ playerMounted' = [playerMounted EXCEPT ![p] = TRUE]
  /\ queue' = Append(queue, PlayerOp(p, 0, "load", "getItem", Null))
  /\ storeEvent' = StoreEvent("mount", 0, "load", "load", p, "pending", TRUE, 0)
  /\ UNCHANGED feedVars
  /\ UNCHANGED prefVars
  /\ UNCHANGED otherLists
  /\ UNCHANGED <<initPc, detailVars, tapVars>>
  /\ UNCHANGED <<playerFavorites, playerSeen, isLiked>>
  /\ UNCHANGED <<consumer, collection, hookMounted, storage, calls, orderly>>

(* getItem of a player's loadFavorites answered: setFavorites of the       *)
(* parsed document, [] when the key is absent; a rejection or a text that  *)
(* does not parse only sets the hook's error.                              *)
PlayerLoadDone(ok) ==
  /\ consumer = PlayerComponent
  /\ queue # << >>
  /\ Head(queue).via = "load"
  /\ queue' = Tail(queue)
  /\ playerFavorites' =
       IF ok /\ Readable(storage[FAVORITE_VIDEOS])
       THEN [playerFavorites EXCEPT ![Head(queue).inst] =
               ParseOrEmpty(storage[FAVORITE_VIDEOS])]
       ELSE playerFavorites
  /\ storeEvent' = StoreEvent("load", 0, "load", "load", Head(queue).inst,
                              "none", ok, 0)
  /\ UNCHANGED feedVars
  /\ UNCHANGED prefVars
  /\ UNCHANGED otherLists
  /\ UNCHANGED <<initPc, detailVars, tapVars>>
  /\ UNCHANGED <<playerMounted, playerSeen, isLiked>>
  /\ UNCHANGED <<consumer, collection, hookMounted, storage, calls, orderly>>

(* A player re-renders: its callbacks close over its current favorites,    *)
(* and checkLikeStatus (deps [video.id, isFavorite]) sets isLiked.         *)
PlayerRender(p) ==
  /\ consumer = PlayerComponent
  /\ playerSeen[p] # playerFavorites[p]
  /\ playerSeen' = [playerSeen EXCEPT ![p] = playerFavorites[p]]
  /\ isLiked' = [isLiked EXCEPT ![p] = Some(playerFavorites[p], p)]
  /\ storeEvent' = StoreEvent("render", 0, "none", "none", p, "none", TRUE, 0)
  /\ UNCHANGED feedVars
  /\ UNCHANGED prefVars
  /\ UNCHANGED otherLists
  /\ UNCHANGED <<initPc, detailVars, tapVars>>
  /\ UNCHANGED <<playerMounted, playerFavorites>>
  /\ UNCHANGED <<consumer, collection, hookMounted, storage, queue, calls,
                 orderly>>

(* handleLike: toggleFavorite(video) of the player's hook up to the await  *)
(* of setItem in removeFavorite or addFavorite.                            *)
handleLike(p) ==
  /\ consumer = PlayerComponent
  /\ playerMounted[p]
  /\ MakeCall
  /\ LET video == [id |-> p]
         listed == Some(playerSeen[p], video.id)
         updated == IF listed THEN Without(playerSeen[p], video.id)
                    ELSE updatedFavorites(video, playerSeen[p])
         via == IF listed THEN "removeFavorite" ELSE "addFavorite"
     IN /\ playerFavorites' = [playerFavorites EXCEPT ![p] = updated]
        /\ queue' = Append(queue, PlayerOp(p, calls + 1, via, "setItem",
                                           JSON_stringify(updated)))
        /\ storeEvent' = StoreEvent("call", calls + 1, "toggleFavorite", via,
                                    p, "pending", TRUE, 0)
  /\ UNCHANGED feedVars
  /\ UNCHANGED prefVars
  /\ UNCHANGED otherLists
  /\ UNCHANGED <<initPc, detailVars, tapVars>>
  /\ UNCHANGED <<playerMounted, playerSeen, isLiked>>
  /\ UNCHANGED <<consumer, collection, hookMounted, storage>>

(* setItem of a player's toggleFavorite answered: the document is          *)
(* replaced, or the write threw; handleLike sets isLiked to the result.    *)
PlayerWriteDone(ok) ==
  /\ consumer = PlayerComponent
  /\ queue # << >>
  /\ Head(queue).kind = "setItem"
  /\ LET op == Head(queue)
         result == IF op.via = "removeFavorite" THEN removeFavoriteResult(ok)
                   ELSE HookResult(ok)
     IN /\ queue' = Tail(queue)
        /\ storage' = IF ok THEN setItem(storage, FAVORITE_VIDEOS, op.text)
                      ELSE storage
        /\ isLiked' = [isLiked EXCEPT ![op.inst] = (result = "true")]
        /\ storeEvent' = StoreEvent("return", op.call, op.api, op.via, op.arg,
                                    result, ok, 0)
  /\ UNCHANGED feedVars
  /\ UNCHANGED prefVars
  /\ UNCHANGED otherLists
  /\ UNCHANGED <<initPc, detailVars, tapVars>>
  /\ UNCHANGED <<playerMounted, playerFavorites, playerSeen>>
  /\ UNCHANGED <<consumer, collection, hookMounted, calls, orderly>>

InitPlayers ==
  /\ consumer = PlayerComponent
  /\ collection = "favorites"
  /\ hookMounted = FALSE
  /\ \E text \in {Null, JSON_stringify(<< >>)} :
       storage = [k \in STORAGE_KEYS |->
                    IF k = FAVORITE_VIDEOS THEN text ELSE Null]
  /\ queue = << >>
  /\ favorites = << >>
  /\ favoritesSeen = << >>
  /\ history = << >>
  /\ historySeen = << >>
  /\ now = 1
  /\ calls = 0
  /\ storeEvent = NoStoreEvent
  /\ orderly = TRUE
  /\ favAdded = [i \in {NoId} \cup VideoIds |-> 0]

PlayersNext ==
  \/ \E p \in Players : PlayerMount(p)
  \/ \E ok \in BOOLEAN : PlayerLoadDone(ok)
  \/ \E p \in Players : PlayerRender(p)
  \/ \E p \in Players : handleLike(p)
  \/ \E ok \in BOOLEAN : PlayerWriteDone(ok)

----------------------------------------------------------------------------

StoreNext ==
  \/ HookMount
  \/ \E ok \in BOOLEAN : LoadDone(ok)
  \/ Render
  \/ \E video \in Videos : CallAddFavorite(video)
  \/ \E videoId \in VideoIds : CallRemoveFavorite(videoId)
  \/ \E video \in Videos : CallToggleFavorite(video)
  \/ \E video \in HistoryVideos : CallAddToHistory(video)
  \/ CallClearHistory
  \/ \E ok \in BOOLEAN : HookWriteDone(ok)
  \/ \E video \in Videos : CallAddFavoriteVideo(video)
  \/ \E videoId \in VideoIds : CallRemoveFavoriteVideo(videoId)
  \/ \E video \in HistoryVideos : CallAddToWatchHistory(video)
  \/ CallClearWatchHistory
  \/ \E ok \in BOOLEAN : ServiceReadDone(ok)
  \/ \E ok \in BOOLEAN : ServiceWriteDone(ok)

(* AppLayout not mounted, no other screen open.                            *)
AppIdle ==
  /\ initPc = "idle"
  /\ detailPc = "closed"
  /\ detailId = NoId
  /\ detailVideo = << >>
  /\ detailLoading = TRUE
  /\ detailError = << >>
  /\ showDetails = FALSE
  /\ detailIsFavorite = FALSE
  /\ detailToggles = {}
  /\ playerMounted = [p \in Players |-> FALSE]
  /\ playerFavorites = [p \in Players |-> << >>]
  /\ playerSeen = [p \in Players |-> << >>]
  /\ isLiked = [p \in Players |-> FALSE]
  /\ searchQueryState = << >>
  /\ searchPerformed = FALSE
  /\ tapTimers = << >>

Init == InitFeed /\ StoreIdle /\ PrefIdle /\ AppIdle

Next == FeedNext

Spec == Init /\ [][Next]_vars

StoreInit == InitStore /\ FeedIdle /\ PrefIdle /\ AppIdle

StoreSpec == StoreInit /\ [][StoreNext]_vars

PrefsInit == InitPrefs /\ FeedIdle /\ AppIdle

PrefsSpec == PrefsInit /\ [][PrefsNext]_vars

ReadInit == InitRead /\ FeedIdle /\ AppIdle

ReadSpec == ReadInit /\ [][ReadNext]_vars

StartInit == InitStore /\ consumer = Service /\ FeedIdle /\ PrefIdle /\ AppIdle

StartSpec == StartInit /\ [][StartNext]_vars

DetailInit == InitDetail /\ FeedIdle /\ PrefIdle /\ AppIdle

DetailSpec == DetailInit /\ [][DetailNext]_vars

OverlapInit ==
  /\ (InitStore /\ PrefIdle) \/ InitPrefs
  /\ consumer = HookA
  /\ collection \in {"history", "searches"}
  /\ FeedIdle
  /\ AppIdle

OverlapSpec == OverlapInit /\ [][OverlapNext]_vars

PlayersInit == InitPlayers /\ FeedIdle /\ PrefIdle /\ AppIdle

PlayersSpec == PlayersInit /\ [][PlayersNext]_vars

TapInit ==
  /\ InitPrefs
  /\ consumer = SearchScreen
  /\ FeedIdle
  /\ AppIdle

TapSpec == TapInit /\ [][TapNext]_vars

FullscreenInit ==
  /\ (InitFeed /\ variant = "FullscreenFeed") \/ InitSeededFeed
  /\ StoreIdle
  /\ PrefIdle
  /\ AppIdle

FullscreenSpec == FullscreenInit /\ [][FullscreenNext]_vars

----------------------------------------------------------------------------
(* C1: useVideos.loadInitial followed by awaited loadMore calls loads the  *)
(* catalog in order, pageSize items per call, nothing skipped or repeated: *)
(* whenever such a run has no fetch pending, the loaded items are the      *)
(* first min(N, (page+1)*pageSize) items of the catalog and hasMore tells  *)
(* whether the last page was full; each successful loadMore appends        *)
(* exactly the next page; once hasMore is false a further loadMore issues  *)
(* no request and changes nothing.                                         *)
C1_Loaded ==
  (variant = "useVideos" /\ run = "seq" /\ inflight = {}) =>
    /\ videos = SubSeq(Catalog, 1, Min(catalogLen, (page + 1) * pageSize))
    /\ hasMore = (catalogLen >= (page + 1) * pageSize)
    /\ ~loading

C1_Step ==
  (variant = "useVideos" /\ run = "seq" /\ run' = "seq") =>
    /\ (lastEvent'.name = "fetchOk" /\ lastEvent'.op = "loadMore") =>
         /\ videos' = videos \o FetchPage(pageSize, Len(videos))
         /\ Len(videos') = Min(catalogLen, Len(videos) + pageSize)
         /\ page' = page + 1
    /\ (lastEvent'.op = "loadMore" /\ lastEvent'.name \in {"issue", "drop"}
        /\ inflight = {} /\ ~hasMore) =>
         /\ lastEvent'.name = "drop"
         /\ UNCHANGED <<videos, page, hasMore, loading, error, inflight,
                        nextReq>>

C1_SequentialPagination == [](C1_Loaded) /\ [][C1_Step]_vars

(* C1 witness: the 25-item catalog fully loaded in three awaited calls,    *)
(* and a further loadMore dropped.                                         *)
C1_Witness ==
  /\ variant = "useVideos" /\ run = "seq"
  /\ catalogLen = 2 * pageSize + ShortPage
  /\ videos = Catalog /\ page = 2 /\ ~hasMore /\ nextReq = 3
  /\ lastEvent.name = "drop"

----------------------------------------------------------------------------
(* Steps of the feed, told apart by the event they record.                 *)

IsFetchOk == lastEvent'.name = "fetchOk"
IsFetchFail == lastEvent'.name = "fetchFail"
IsIssue == lastEvent'.name = "issue"
IsLoadMoreCall == lastEvent'.op = "loadMore" /\ lastEvent'.name \in {"issue", "drop"}
RefreshOps == {"loadInitial", "refresh", "retry"}

(* The offset the next load-more request would ask for.                    *)
NextLoadMoreOffset ==
  IF variant = "useVideos" THEN offset ELSE page * PAGE_SIZE

(* C2: after every successful page fetch that returned n items, hasMore    *)
(* equals (n >= pageSize); an empty page fetched past the end of the       *)
(* catalog raises no error and leaves the loaded items as they were.       *)
C2_HasMoreIsFullPage ==
  lastEvent.name = "fetchOk" => hasMore = (lastEvent.n >= PAGE_SIZE)

C2_EmptyPageStep ==
  (IsFetchOk /\ lastEvent'.n = 0 /\ lastEvent'.op \notin RefreshOps) =>
    (videos' = videos /\ error' = error /\ ~hasMore')

C2_HasMoreAfterEveryFetch == [](C2_HasMoreIsFullPage) /\ [][C2_EmptyPageStep]_vars

(* C3: a load-more request that arrives while a page fetch is pending is   *)
(* dropped: it issues no request and appends nothing.                      *)
C3_Step ==
  (IsLoadMoreCall /\ inflight # {}) =>
    (lastEvent'.name = "drop" /\ inflight' = inflight /\ nextReq' = nextReq
     /\ videos' = videos)

C3_LoadMoreDroppedWhileFetching == [][C3_Step]_vars

(* C4: a failed page fetch leaves the loaded items unchanged, records an   *)
(* error and returns loading to false; it changes nothing the retry's      *)
(* guard reads besides loading, so the retry is not blocked: it clears the *)
(* error, sets loading and issues a new fetch; a fetch that succeeds       *)
(* raises no error and returns loading to false, which puts the feed back  *)
(* in LOADED (not loading, no error).                                      *)
C4_FailStep ==
  IsFetchFail =>
    /\ videos' = videos
    /\ error' # NoError
    /\ ~loading'
    /\ hasMore' = hasMore /\ page' = page
    /\ Cardinality(inflight') = Cardinality(inflight) - 1

(* After a failure the retry of the failed call is available and passes   *)
(* its guard: loadInitial / refresh are unguarded, the Retry button is on  *)
(* the error screen, and load-more asks only for hasMore.                  *)
C4_RetryAvailable ==
  lastEvent.name = "fetchFail" =>
    /\ ~loading
    /\ (variant = "useVideos") => (hasMore => LoadMoreGuard)
    /\ (variant # "useVideos") =>
         (errorShown \/ (listShown /\ (hasMore => EndReachedGuard)))

C4_RetryStep ==
  (IsIssue /\ error # NoError) =>
    /\ error' = NoError
    /\ loading'
    /\ \E f \in inflight' \ inflight : f.req = lastEvent'.req
    /\ videos' = videos

C4_SuccessStep ==
  IsFetchOk => (~loading' /\ error' = error)

C4_FailureKeepsItemsAndRetryWorks ==
  /\ [](C4_RetryAvailable)
  /\ [][C4_FailStep /\ C4_RetryStep /\ C4_SuccessStep]_vars

(* C4 witness: the first load failed, the Retry button issued a new fetch  *)
(* and that fetch succeeded: items loaded, not loading, no error.          *)
C4_Witness ==
  /\ lastEvent.name = "fetchOk" /\ lastEvent.op = "retry"
  /\ videos # << >> /\ ~loading /\ error = NoError /\ inflight = {}

(* C5: a successful refresh leaves exactly the fresh first page loaded,    *)
(* the next load-more will ask for offset pageSize, and hasMore tells      *)
(* whether the fresh page was full.                                        *)
C5_RefreshReplaces ==
  (lastEvent.name = "fetchOk" /\ lastEvent.op \in RefreshOps) =>
    /\ videos = FetchPage(PAGE_SIZE, 0)
    /\ NextLoadMoreOffset = PAGE_SIZE
    /\ hasMore = (lastEvent.n >= PAGE_SIZE)

(* C6: in FullscreenFeed a change of the active item to a new item makes   *)
(* exactly one addToWatchHistory call, for that item, and a step that      *)
(* leaves the active item the same makes none.                             *)
ActiveItem ==
  IF Len(videos) > 0 THEN VideoAt(videos, activeVideoIndex) ELSE Undefined

C6_Step ==
  variant = "FullscreenFeed" =>
    /\ (ActiveItem' # ActiveItem /\ ActiveItem' # Undefined) =>
         watchCalls' = Append(watchCalls, ActiveItem')
    /\ ActiveItem' = ActiveItem => watchCalls' = watchCalls

C6_OneHistoryAddPerActiveChange == [][C6_Step]_vars

----------------------------------------------------------------------------
(* The favorites list a consumer works on: the hook's in-memory list, the  *)
(* durable document for services/storage.                                  *)
FavoritesList ==
  IF consumer \in Hooks THEN favorites
  ELSE ParseOrEmpty(storage[FAVORITE_VIDEOS])

HistoryList ==
  IF consumer \in Hooks THEN history ELSE ParseOrEmpty(storage[WATCH_HISTORY])

NoDuplicateIds(list) ==
  \A i, j \in DOMAIN list : list[i].id = list[j].id => i = j

MostRecentlyAddedFirst(list) ==
  \A i, j \in DOMAIN list :
    i < j => favAdded[list[i].id] > favAdded[list[j].id]

(* C7: when every addFavorite / removeFavorite call (addFavoriteVideo /    *)
(* removeFavoriteVideo) is issued after the previous one has completed and *)
(* the hook has re-rendered, starting from an empty list, the favorites    *)
(* list never holds two entries with one id, its entries are ordered by    *)
(* the call that added them, latest first, and an add of an id that is     *)
(* listed leaves the list, the document and the pending writes as they     *)
(* were.                                                                   *)
C7_NoDuplicatesMostRecentFirst ==
  (collection = "favorites" /\ orderly) =>
    /\ NoDuplicateIds(FavoritesList)
    /\ NoDuplicateIds(ParseOrEmpty(storage[FAVORITE_VIDEOS]))
    /\ MostRecentlyAddedFirst(FavoritesList)

C7_AddOfListedId ==
  /\ (/\ consumer \in Hooks /\ orderly'
      /\ calls' = calls + 1 /\ storeEvent'.api = "addFavorite"
      /\ Some(favorites, storeEvent'.arg))
     => (/\ favorites' = favorites /\ queue' = queue /\ storage' = storage
         /\ storeEvent'.result = "true")
  /\ (/\ consumer = Service /\ orderly
      /\ storeEvent'.api = "addFavoriteVideo"
      /\ storeEvent'.via = "getFavoriteVideos"
      /\ storeEvent'.name \in {"read", "return"} /\ storeEvent'.ok
      /\ Some(FavoritesList, storeEvent'.arg))
     => (/\ storeEvent'.name = "return"
         /\ storage' = storage /\ queue' = << >>)

C8_ToggleReturnsIsNowFavorite ==
  (/\ consumer \in Hooks /\ orderly
   /\ storeEvent.name = "return" /\ storeEvent.api = "toggleFavorite"
   /\ storeEvent.ok)
  => ((storeEvent.result = "true") <=> Some(favorites, storeEvent.arg))

(* The step in which an add takes effect on the history: the call itself   *)
(* for the hook (setHistory), the landing of the write for services/storage.*)
AddTakesEffect ==
  \/ /\ consumer \in Hooks
     /\ storeEvent'.name = "call" /\ storeEvent'.api = "addToHistory"
  \/ /\ consumer = Service
     /\ storeEvent'.name = "return"
     /\ storeEvent'.api = "addToWatchHistory" /\ storeEvent'.ok

(* The list an add worked on: the history, or [] when the read of          *)
(* getWatchHistory threw.                                                  *)
AsRead(list) == {list} \cup (IF consumer = Service THEN {<< >>} ELSE {})

(* C9: an add of v made in sequence on a history that holds an entry for   *)
(* v.id leaves exactly one entry with that id, at the front, stamped with  *)
(* the time read by this call, and the other entries in the order they had.*)
C9_Step ==
  (/\ collection = "history" /\ orderly' /\ AddTakesEffect
   /\ Some(HistoryList, storeEvent'.arg))
  => LET v == storeEvent'.arg
         post == HistoryList'
     IN /\ post # << >>
        /\ post[1] = [id |-> v, watchedAt |-> now']
        /\ Cardinality({i \in DOMAIN post : post[i].id = v}) = 1
        /\ \E base \in AsRead(HistoryList) :
             Without(post, v) = Without(base, v)

C10_AtMostFifty ==
  /\ Len(history) <= HISTORY_LIMIT
  /\ Len(historySeen) <= HISTORY_LIMIT
  /\ Len(ParseOrEmpty(storage[WATCH_HISTORY])) <= HISTORY_LIMIT
  /\ (/\ storeEvent.name = "return" /\ storeEvent.api = "addToHistory"
      /\ storeEvent.arg # NoId /\ storeEvent.ok)
     => storeEvent.result = "true"

C10_AddToFull ==
  (/\ collection = "history" /\ orderly' /\ AddTakesEffect
   /\ storeEvent'.arg # NoId
   /\ ~Some(HistoryList, storeEvent'.arg)
   /\ Len(HistoryList) = HISTORY_LIMIT)
  => LET post == HistoryList' IN
       /\ post # << >>
       /\ post[1] = [id |-> storeEvent'.arg, watchedAt |-> now']
       /\ \E base \in AsRead(HistoryList) :
            Tail(post) = SubSeq(base, 1, Min(Len(base), HISTORY_LIMIT - 1))

----------------------------------------------------------------------------
(* The recent-search list in memory, the one in the durable document, and  *)
(* the cap of the call site in use.                                        *)
SearchesDoc == ParseOrEmpty(storage[RECENT_SEARCHES])
SearchCap ==
  IF consumer = SearchScreen THEN SCREEN_RECENT_LIMIT ELSE RECENT_LIMIT

(* A step in which the list of recent searches gets a term added: the call *)
(* of addRecentSearch with a non-blank term, or the successful end of the  *)
(* search of handleSearch for a term its render did not list.  AddedTerm   *)
(* and AddedTo are the term and the list the code adds it to.              *)
IsHookAdd ==
  /\ consumer = HookA /\ collection = "searches"
  /\ storeEvent'.name = "call" /\ storeEvent'.api = "addRecentSearch"

IsScreenAdd(s) ==
  /\ consumer = SearchScreen
  /\ s \in searching /\ s \notin searching'
  /\ storeEvent'.name = "searched" /\ storeEvent'.ok

(* C11: recent searches hold at most 10 entries through                    *)
(* useRecentSearches.addRecentSearch and at most 5 through handleSearch of *)
(* the search screen, in memory and in the document, when the stored list  *)
(* starts within the cap; adding a term that is not listed to a full list  *)
(* puts it first and drops the last (oldest) entry.                        *)
C11_WithinCap ==
  collection = "searches"
    => /\ Len(recentSearches) <= SearchCap
       /\ Len(SearchesDoc) <= SearchCap

C11_HookAddToFull ==
  (/\ IsHookAdd
   /\ Len(recentSearchesSeen) = RECENT_LIMIT
   /\ ~includes(recentSearchesSeen, storeEvent'.arg))
    => recentSearches' = <<storeEvent'.arg>>
         \o SubSeq(recentSearchesSeen, 1, RECENT_LIMIT - 1)

C11_ScreenAddToFull ==
  \A s \in searching :
    (/\ IsScreenAdd(s)
     /\ Len(s.seen) = SCREEN_RECENT_LIMIT
     /\ ~includes(s.seen, s.query))
      => recentSearches' = <<s.query>>
           \o SubSeq(s.seen, 1, SCREEN_RECENT_LIMIT - 1)

C11_RecentSearchesCapped ==
  /\ [](C11_WithinCap)
  /\ [][C11_HookAddToFull /\ C11_ScreenAddToFull]_vars

(* A new term was added to a full list of ten and the write landed: the    *)
(* document has ten entries, the new term first, the former last one gone. *)
C11_Witness ==
  /\ consumer = HookA /\ collection = "searches"
  /\ storeEvent.name = "return" /\ storeEvent.api = "addRecentSearch"
  /\ storeEvent.ok
  /\ storeEvent.arg = <<RECENT_LIMIT + 1>>
  /\ Len(SearchesDoc) = RECENT_LIMIT
  /\ SearchesDoc[1] = <<RECENT_LIMIT + 1>>
  /\ ~includes(SearchesDoc, <<RECENT_LIMIT>>)
  /\ recentSearches = SearchesDoc

(* C12: adding a term the list already holds removes the prior occurrence  *)
(* and puts the term first, the length staying the same, through           *)
(* useRecentSearches.addRecentSearch and through handleSearch of the       *)
(* search screen (calls made in sequence, the search succeeding).          *)
ReAdded(term, list) == <<term>> \o WithoutTerm(list, term)

C12_HookStep ==
  (/\ IsHookAdd
   /\ orderly'
   /\ includes(recentSearchesSeen, storeEvent'.arg))
    => /\ recentSearches' = ReAdded(storeEvent'.arg, recentSearchesSeen)
       /\ Len(recentSearches') = Len(recentSearchesSeen)

C12_ScreenStep ==
  \A s \in searching :
    (/\ IsScreenAdd(s)
     /\ orderly
     /\ includes(s.seen, s.query))
      => /\ recentSearches' = ReAdded(s.query, s.seen)
         /\ Len(recentSearches') = Len(s.seen)

C12_ReAddMovesTermToFront == [][C12_HookStep /\ C12_ScreenStep]_vars

(* C13: an add stores the trimmed term: after adding a term that is not    *)
(* all white space (through addRecentSearch, or through a successful       *)
(* handleSearch for a term its render did not list) the first entry is     *)
(* trim(term); adding an empty or blank term changes neither the list in   *)
(* memory nor the document and queues no write.                            *)
IsBlankAdd ==
  /\ collection = "searches"
  /\ storeEvent'.api \in {"addRecentSearch", "handleSearch"}
  /\ storeEvent'.name \in {"call", "return"}
  /\ storeEvent'.call = calls'
  /\ calls' = calls + 1
  /\ trim(storeEvent'.arg) = << >>

C13_HookStep ==
  (IsHookAdd /\ trim(storeEvent'.arg) # << >>)
    => Head(recentSearches') = trim(storeEvent'.arg)

C13_ScreenStep ==
  \A s \in searching :
    (IsScreenAdd(s) /\ ~includes(s.seen, s.query))
      => Head(recentSearches') = trim(s.query)

C13_BlankStep ==
  IsBlankAdd
    => /\ UNCHANGED <<recentSearches, storage, queue, searching>>
       /\ storeEvent'.name = "return"

C13_AddStoresTrimmedTerm ==
  [][C13_HookStep /\ C13_ScreenStep /\ C13_BlankStep]_vars

(* C14: an update of the settings with a partial record, made in sequence  *)
(* (nothing pending, the current record rendered), changes exactly the     *)
(* fields the partial names: the record in memory becomes the prior record *)
(* with those fields replaced, every other field kept, and once the write  *)
(* has landed the document parses to that same record.  Holds for          *)
(* useAppSettings.updateSettings and for updateSetting of the settings     *)
(* screen.                                                                 *)
SettingsDoc == JSON_parse(storage[APP_SETTINGS])

IsSettingsUpdate ==
  /\ collection = "settings"
  /\ storeEvent'.api \in {"updateSettings", "updateSetting"}

OnlyNamedFieldsChanged(prior, partial, record) ==
  /\ DOMAIN record = DOMAIN prior
  /\ \A f \in DOMAIN prior :
       record[f] = IF f \in DOMAIN partial THEN partial[f] ELSE prior[f]

C14_CallStep ==
  (IsSettingsUpdate /\ storeEvent'.name = "call" /\ orderly')
    => OnlyNamedFieldsChanged(settings, Partials[storeEvent'.arg], settings')

C14_WriteStep ==
  (IsSettingsUpdate /\ storeEvent'.name = "return" /\ storeEvent'.ok
     /\ orderly)
    => /\ settings' = settings
       /\ storage'[APP_SETTINGS] # Null
       /\ JSON_parse(storage'[APP_SETTINGS]) = settings'

C14_UpdateChangesOnlyNamedFields == [][C14_CallStep /\ C14_WriteStep]_vars

(* The saved record was loaded, updateSettings({downloadQuality: 'low'})   *)
(* was called and its write landed: memory and document hold the saved     *)
(* record with only downloadQuality changed.                               *)
C14_Witness ==
  /\ consumer = HookA /\ collection = "settings"
  /\ storeEvent.name = "return" /\ storeEvent.api = "updateSettings"
  /\ storeEvent.ok /\ orderly
  /\ Partials[storeEvent.arg] = [downloadQuality |-> "low"]
  /\ settings = [SavedSettings EXCEPT !.downloadQuality = "low"]
  /\ SettingsDoc = settings

(* C15: a read of a collection whose document is absent or does not parse  *)
(* ends with the empty list (favorites, watch history, recent searches) or *)
(* the default settings record and with no exception: the load effects of  *)
(* the hooks and screens leave exactly that in memory, and the getters of  *)
(* services/storage return it.                                             *)
NothingToRead == storage[Key] \in {Null, Corrupt}

InMemory ==
  IF collection = "favorites" THEN favorites
  ELSE IF collection = "history" THEN history
  ELSE IF collection = "searches" THEN recentSearches
  ELSE settings

EmptyValue == IF collection = "settings" THEN DefaultSettings ELSE << >>

C15_LoadStep ==
  (NothingToRead /\ storeEvent'.name = "load") => InMemory' = EmptyValue

C15_GetStep ==
  (/\ NothingToRead
   /\ consumer = Service
   /\ storeEvent'.name = "return"
   /\ storeEvent'.api = Getter)
    => storeEvent'.result = EmptyValue

C15_AbsentOrCorruptReadsEmpty == [][C15_LoadStep /\ C15_GetStep]_vars

(* getWatchHistory found a text that does not parse and returned [].       *)
C15_Witness ==
  /\ consumer = Service /\ collection = "history"
  /\ storage[WATCH_HISTORY] = Corrupt
  /\ storeEvent.name = "return" /\ storeEvent.api = "getWatchHistory"
  /\ storeEvent.ok
  /\ storeEvent.result = << >>

(* C16: a mutation whose durable write fails ends with a result its caller *)
(* can tell from the result of success, and with no exception: when the    *)
(* setItem of a call is answered with a failure, the call returns, and     *)
(* what it returns differs from what it returns when the write succeeds.   *)
IsWriteAnswered ==
  /\ queue # << >>
  /\ Head(queue).kind = "setItem"
  /\ storeEvent'.name = "return"
  /\ storeEvent'.call = Head(queue).call

ResultOfSuccess(op) ==
  IF consumer \notin Hooks THEN ServiceResult(TRUE)
  ELSE IF op.via = "removeFavorite" THEN removeFavoriteResult(TRUE)
  ELSE HookResult(TRUE)

C16_HookStep ==
  (IsWriteAnswered /\ consumer \in Hooks /\ ~storeEvent'.ok)
    => storeEvent'.result # ResultOfSuccess(Head(queue))

C16_ServiceStep ==
  (IsWriteAnswered /\ consumer \notin Hooks /\ ~storeEvent'.ok)
    => storeEvent'.result # ResultOfSuccess(Head(queue))

C16_WriteFailureIsAnErrorResult == [][C16_HookStep /\ C16_ServiceStep]_vars

(* C17: when the durable write of a hook mutation fails, the copy in       *)
(* memory holds the result of the mutation (what the call tried to write)  *)
(* and is left as it is; calls made in sequence.  Clears are the steps     *)
(* whose write carries the empty list.                                     *)
IsClear(op) == op.via \in {"clearHistory", "clearRecentSearches"}

C17_MutationStep ==
  (/\ IsWriteAnswered /\ consumer \in Hooks /\ orderly
   /\ ~storeEvent'.ok /\ ~IsClear(Head(queue)))
    => /\ InMemory' = JSON_parse(Head(queue).text)
       /\ InMemory' = InMemory

C17_ClearStep ==
  (/\ IsWriteAnswered /\ consumer \in Hooks /\ orderly
   /\ ~storeEvent'.ok /\ IsClear(Head(queue)))
    => /\ InMemory' = JSON_parse(Head(queue).text)
       /\ InMemory' = InMemory

C17_FailedWriteKeepsMutationInMemory ==
  [][C17_MutationStep /\ C17_ClearStep]_vars

(* C18: mutations take effect on the copy in memory in call order: when a  *)
(* hook mutation m1, itself made in sequence, is followed at once by a     *)
(* mutation m2 (no write answered and no re-render in between), the copy   *)
(* in memory after m2 is m2 applied to the copy m1 left.                   *)
IsSecondMutation ==
  /\ consumer \in Hooks
  /\ orderly
  /\ storeEvent.name = "call"
  /\ storeEvent'.name = "call"
  /\ storeEvent'.call = storeEvent.call + 1

C18_HistoryStep ==
  (IsSecondMutation /\ storeEvent'.via = "addToHistory")
    => history' = HistoryWith([id |-> storeEvent'.arg], storeEvent'.t, history)

C18_FavoritesStep ==
  /\ (IsSecondMutation /\ storeEvent'.via = "addFavorite")
       => favorites' = updatedFavorites([id |-> storeEvent'.arg], favorites)
  /\ (IsSecondMutation /\ storeEvent'.via = "removeFavorite")
       => favorites' = Without(favorites, storeEvent'.arg)

C18_SettingsStep ==
  (IsSecondMutation /\ storeEvent'.via = "updateSettings")
    => settings' = Merge(settings, Partials[storeEvent'.arg])

C18_MutationsApplyInCallOrder ==
  [][C18_HistoryStep /\ C18_FavoritesStep /\ C18_SettingsStep]_vars

(* C19: the durable write replaces the whole document and checks nothing:  *)
(* whenever a write lands, the document is exactly the text of that write; *)
(* and when two adds of services/storage (addToWatchHistory or             *)
(* addFavoriteVideo, different videos) have both read before either has    *)
(* written, then once both writes have landed the entry the first one      *)
(* wrote is gone and the document holds the second one's video.  The two   *)
(* have so overlapped when the write of one lands right after the write of *)
(* the other, and the first one's video is newly added for the second when *)
(* the list the second had read does not hold it.                          *)
StoredList == ParseOrEmpty(storage[Key])

IsOverlappingAdd ==
  /\ consumer = Service
  /\ IsWriteAnswered
  /\ storeEvent'.ok
  /\ Head(queue).api \in {"addToWatchHistory", "addFavoriteVideo"}
  /\ storeEvent.name = "return" /\ storeEvent.ok
  /\ storeEvent.api = Head(queue).api
  /\ storeEvent.via = storeEvent.api
  /\ storeEvent.call # Head(queue).call
  /\ storeEvent.arg # Head(queue).arg
  /\ storage[Key] # Null
  /\ StoredList # << >>
  /\ Head(StoredList).id = storeEvent.arg
  /\ ~Some(Head(queue).base, storeEvent.arg)

C19_LandedWriteIsTheDocument ==
  (IsWriteAnswered /\ storeEvent'.ok) => storage'[Key] = Head(queue).text

C19_OverlapStep ==
  IsOverlappingAdd
    => /\ ~Some(StoredList', storeEvent.arg)
       /\ Head(StoredList').id = Head(queue).arg

C19_LastLandedWriteWins ==
  [][C19_LandedWriteIsTheDocument /\ C19_OverlapStep]_vars

(* Two calls were made, addFavoriteVideo for video 1 and, while that call  *)
(* was pending, for video 2; each found its video missing and wrote, both  *)
(* writes landed, and the document holds video 2 only.                     *)
C19_Witness ==
  /\ consumer = Service /\ collection = "favorites"
  /\ calls = 2 /\ queue = << >> /\ ~orderly
  /\ favAdded[1] = 1 /\ favAdded[2] = 2
  /\ storeEvent.name = "return" /\ storeEvent.ok
  /\ StoredList = <<[id |-> 2]>>

(* C20: the response to a page fetch that was issued before a refresh and  *)
(* arrives after that refresh was issued (the refresh's own request still  *)
(* pending, or just answered) is discarded: it changes neither the loaded  *)
(* items nor the page offset nor hasMore.                                  *)
IssuedBeforeRefresh(f) ==
  \/ \E g \in inflight : g.op = "refresh" /\ g.req > f.req
  \/ /\ lastEvent.name = "fetchOk" /\ lastEvent.op = "refresh"
     /\ lastEvent.req > f.req

C20_Step ==
  \A f \in inflight :
    (IsFetchOk /\ lastEvent'.req = f.req /\ IssuedBeforeRefresh(f))
      => UNCHANGED <<videos, page, hasMore>>

C20_StaleResponseDiscarded == [][C20_Step]_vars

----------------------------------------------------------------------------
(* C21: initializeApp never resets an existing document: a step of         *)
(* initializeApp leaves every document that exists as it is, whatever the  *)
(* collection functions did between its check and its write, and what it   *)
(* writes to an absent key is the empty list.                              *)
IsInitStep == storeEvent'.api = "initializeApp"

C21_Step ==
  IsInitStep =>
    \A key \in STORAGE_KEYS :
      IF storage[key] # Null THEN storage'[key] = storage[key]
      ELSE storage'[key] \in {Null, JSON_stringify(<< >>)}

C21_InitializeKeepsExistingDocuments == [][C21_Step]_vars

----------------------------------------------------------------------------
(* C22: a fetchVideoById that fails because the catalog does not have the  *)
(* id (HTTP 404) is told apart from every other failure: when loadVideo    *)
(* ends in a failure, the detail screen shows "Video not found" exactly    *)
(* when the response was a 404.                                            *)
IsFailedFetch ==
  /\ storeEvent'.api = "fetchVideoById"
  /\ storeEvent'.name = "fetched"
  /\ ~storeEvent'.ok

C22_Step ==
  IsFailedFetch =>
    ((detailMessage' = <<"Video not found">>) <=> (storeEvent'.result = "404"))

C22_NotFoundIsToldApart == [][C22_Step]_vars

(* C28: when a toggleFavorite of the detail screen completes, the          *)
(* isFavorite it displays is the membership of the screen's id in the      *)
(* stored favorites document, also when the setItem of addFavoriteVideo    *)
(* or removeFavoriteVideo failed.                                          *)
IsToggleCompleted ==
  /\ consumer = DetailScreen
  /\ storeEvent'.name = "return"
  /\ storeEvent'.api \in ToggleApis

C28_Step ==
  IsToggleCompleted =>
    (detailIsFavorite' =
       Some(ParseOrEmpty(storage'[FAVORITE_VIDEOS]), detailId))

C28_DisplayedFavoriteIsStoredFavorite == [][C28_Step]_vars

(* C23: a refresh of FullscreenFeed that was given a target id yields the  *)
(* index of that id in the fresh page when the page contains it.  As       *)
(* claimed, it yields -1 when the page does not contain it; as amended, it *)
(* yields 0 then, the value it also yields for the first item.             *)
Contains(list, id) == \E i \in DOMAIN list : list[i] = id

IsTargetRefreshDone(f) ==
  /\ variant = "FullscreenFeed"
  /\ initialVideoId # Undefined
  /\ f.refresh
  /\ lastEvent'.name = "fetchOk"
  /\ lastEvent'.req = f.req

C23_FoundStep ==
  \A f \in inflight :
    IsTargetRefreshDone(f) /\ Contains(FetchPage(PAGE_SIZE, f.offset),
                                       initialVideoId)
      => /\ initialIndex' \in 0..(Len(FetchPage(PAGE_SIZE, f.offset)) - 1)
         /\ FetchPage(PAGE_SIZE, f.offset)[initialIndex' + 1] = initialVideoId

C23_AbsentStep(none) ==
  \A f \in inflight :
    IsTargetRefreshDone(f) /\ ~Contains(FetchPage(PAGE_SIZE, f.offset),
                                        initialVideoId)
      => initialIndex' = none

C23_RefreshYieldsTargetIndexOrMinusOne ==
  [][C23_FoundStep /\ C23_AbsentStep(-1)]_vars

C23_RefreshYieldsTargetIndexOrZero ==
  [][C23_FoundStep /\ C23_AbsentStep(0)]_vars

C23_Witness ==
  /\ variant = "FullscreenFeed"
  /\ initialVideoId = PAGE_SIZE + 1
  /\ lastEvent.name = "fetchOk"
  /\ lastEvent.op = "retry"
  /\ lastEvent.n = PAGE_SIZE
  /\ initialIndex = 0

(* C24: in every reachable state of a feed started without initial videos, *)
(* whatever the order of loadInitial / loadMore / refresh calls and of     *)
(* successful and failed completions, the loaded sequence is a prefix of   *)
(* the catalog: no item twice, none skipped.                               *)
IsPrefixOfCatalog(list) ==
  /\ Len(list) <= catalogLen
  /\ \A i \in DOMAIN list : list[i] = Catalog[i]

C24_LoadedIsPrefixOfCatalog == IsPrefixOfCatalog(videos)

(* C25: the loading flag of a feed is true whenever at least one of its    *)
(* fetches is in flight; the completion of one fetch does not clear it     *)
(* while another is still pending.                                         *)
C25_LoadingWhileFetchInFlight == (inflight # {}) => loading

(* C26: for useWatchHistory and useRecentSearches, once every issued       *)
(* mutation has completed with a successful write and nothing is pending,  *)
(* the stored document equals the in-memory list, whatever the             *)
(* interleaving of add and clear calls.                                    *)
HookList == IF collection = "history" THEN history ELSE recentSearches

AllWritesLanded ==
  /\ queue = << >>
  /\ storeEvent.name = "return"
  /\ storeEvent.result = HookResult(TRUE)

C26_DocumentEqualsMemory ==
  AllWritesLanded => ParseOrEmpty(storage[Key]) = HookList

(* C27: with two mounted players, each with its own useFavoriteVideos, a   *)
(* favorite one of them has persisted is still in the stored favorites     *)
(* document after the other adds or removes a different video.             *)
FavoritesDoc == ParseOrEmpty(storage[FAVORITE_VIDEOS])

IsPlayerWriteAnswered ==
  /\ consumer = PlayerComponent
  /\ storeEvent'.name = "return"
  /\ storeEvent'.api = "toggleFavorite"

C27_Step ==
  IsPlayerWriteAnswered =>
    \A id \in VideoIds \ {storeEvent'.arg} :
      Some(FavoritesDoc, id) => Some(FavoritesDoc', id)

C27_OtherInstanceKeepsPersistedFavorite == [][C27_Step]_vars

(* C29: the handleSearch that a tap on a recent search term starts runs a  *)
(* catalog search whose keyword is the tapped term, not the text the input *)
(* held before the tap.                                                    *)
IsTapSearchStarted ==
  /\ consumer = SearchScreen
  /\ tapTimers # << >>
  /\ tapTimers' = Tail(tapTimers)

C29_Step ==
  IsTapSearchStarted =>
    \E s \in searching' \ searching : s.query = Head(tapTimers).query

C29_TapSearchesTappedTerm == [][C29_Step]_vars

(* C30: in FullscreenFeed, with or without initialVideos, whenever videos  *)
(* is non-empty the active index is that of an existing item, and no       *)
(* addToWatchHistory call was made with an undefined video.                *)
C30_ActiveIndexInRange ==
  variant = "FullscreenFeed" =>
    /\ Len(videos) > 0 => activeVideoIndex \in 0..(Len(videos) - 1)
    /\ \A i \in DOMAIN watchCalls : watchCalls[i] # Undefined

C30_Witness ==
  /\ variant = "FullscreenFeed"
  /\ hasInitialVideos
  /\ lastEvent.name = "fetchOk"
  /\ activeVideoIndex > 0
  /\ Len(videos) > PAGE_SIZE
  /\ Len(watchCalls) > 2

====
